---- MODULE Spec2Model ----
(***************************************************************************)
(* A model of the ECS core of virtuallife: World (entity table, system     *)
(* list, deferred adds/removals, the update tick), System (matching and    *)
(* registration), Entity (component map) and the SpatialGrid the World     *)
(* mirrors entities into.                                                  *)
(***************************************************************************)
EXTENDS Integers, Sequences, FiniteSets, TLC

\* ------------------------------------------------------------------ bounds
NumEntities == 2
NumSystems == 2
MaxPriority == 1
MaxPending == 2
GridWidth == 4
GridHeight == 2
CellSize == 2

EntityIds == 1..NumEntities
SystemIds == 1..NumSystems
Priorities == 0..MaxPriority
Tags == {"A", "B"}
\* the position an entity object is constructed with: in range for odd ids,
\* out of range on both axes for even ids
initial_position(e) == IF e % 2 = 1 THEN <<1, 0>> ELSE <<GridWidth + 1, -1>>

\* the components an entity object is constructed with
initial_components(e) ==
    CASE e % 3 = 1 -> {"A"}
      [] e % 3 = 2 -> {"A", "B"}
      [] OTHER -> {}

VARIABLES
    entities,                   \* World.entities: the ids that are keys of the entity table
    systems,                    \* World.systems: list of systems
    entities_pending_add,       \* World._entities_pending_add: list of entities
    entity_ids_pending_removal, \* World._entity_ids_pending_removal: set of ids
    is_processing,              \* World._is_processing
    spatial_grid,               \* World._spatial_grid: "None" or "grid"
    sys_entities,               \* System.entities of every system object
    enabled,                    \* System.enabled of every system object
    priority,                   \* System.priority of every system object
    components,                 \* Entity._components (its tags) of every entity object
    position,                   \* Entity.position of every entity object
    cells,                      \* SpatialGrid._cells: cell -> set of ids
    entity_positions,           \* SpatialGrid._entity_positions: id -> position
    boundary,                   \* the grid's boundary handler
    pc,                         \* where World.update stands: "idle", "loop", "process"
    idx,                        \* position of the iterator of `for system in self.systems'
    processed,                  \* the systems whose process() ran in the current update
    resources,                  \* ResourceManager._resources: type -> position -> amount
    entity,                     \* an Entity object used on its own: class, components, dirty
    runner,                     \* a SimulationRunner with its environment's entities
    result,                     \* what the last call returned, or the error it raised
    calls,                      \* the hooks, callbacks and updates the last call invoked
    dispatcher,                 \* the EventDispatcher: _subscribers
    environment                 \* the simulation Environment and the entity objects it was given

vars == <<entities, systems, entities_pending_add, entity_ids_pending_removal,
          is_processing, spatial_grid, sys_entities, enabled, priority,
          components, position, cells, entity_positions, boundary, pc, idx,
          processed, resources, entity, runner, result, calls, dispatcher,
          environment>>

\* the objects that are not part of a World or of its grid
otherVars == <<resources, entity, runner, result, calls, dispatcher, environment>>

\* the EventDispatcher and the simulation Environment
simVars == <<dispatcher, environment>>

\* --------------------------------------------------------------- helpers
Range(s) == {s[i] : i \in 1..Len(s)}

Put(f, k, v) == [x \in (DOMAIN f) \cup {k} |-> IF x = k THEN v ELSE f[x]]

Del(f, k) == [x \in (DOMAIN f) \ {k} |-> f[x]]

EmptyMap == [x \in {} |-> {}]

Max(a, b) == IF a >= b THEN a ELSE b

Min(a, b) == IF a <= b THEN a ELSE b

\* ------------------------------------------------------ boundary handler
\* normalize_position with the truncating remainder for the wrapped handler
normalize_position_truncating(b, p) ==
    LET rem(x, n) == IF x >= 0 THEN x % n ELSE 0 - ((0 - x) % n)
    IN CASE b = "wrapped" -> <<rem(p[1], GridWidth), rem(p[2], GridHeight)>>
         [] b = "bounded" -> <<Max(0, Min(p[1], GridWidth - 1)),
                               Max(0, Min(p[2], GridHeight - 1))>>
         [] OTHER -> p

normalize_position(b, p) ==
    CASE b = "wrapped" -> <<p[1] % GridWidth, p[2] % GridHeight>>
      [] b = "bounded" -> <<Max(0, Min(p[1], GridWidth - 1)),
                            Max(0, Min(p[2], GridHeight - 1))>>
      [] OTHER -> p

\* ---------------------------------------------------------- spatial grid
\* a grid value is a record [cells, entity_positions]
position_to_cell(p) == <<p[1] \div CellSize, p[2] \div CellSize>>

\* add_entity that, for an id it already holds, takes the id out of the bucket
\* of its previous position after the insertion
grid_add_entity_evicting(g, id, p) ==
    LET np == normalize_position(boundary, p)
        cell == position_to_cell(np)
        old == IF cell \in DOMAIN g.cells THEN g.cells[cell] ELSE {}
        c1 == Put(g.cells, cell, old \cup {id})
        prev == IF id \in DOMAIN g.entity_positions
                THEN position_to_cell(g.entity_positions[id]) ELSE cell
    IN [cells |-> IF id \in DOMAIN g.entity_positions /\ prev \in DOMAIN c1
                  THEN Put(c1, prev, c1[prev] \ {id}) ELSE c1,
        entity_positions |-> Put(g.entity_positions, id, np)]

grid_add_entity(g, id, p) ==
    LET np == normalize_position(boundary, p)
        cell == position_to_cell(np)
        old == IF cell \in DOMAIN g.cells THEN g.cells[cell] ELSE {}
    IN [cells |-> Put(g.cells, cell, old \cup {id}),
        entity_positions |-> Put(g.entity_positions, id, np)]

grid_remove_entity(g, id) ==
    IF id \notin DOMAIN g.entity_positions THEN g
    ELSE LET p == g.entity_positions[id]
             cell == position_to_cell(p)
             c1 == IF cell \in DOMAIN g.cells /\ id \in g.cells[cell]
                   THEN IF g.cells[cell] \ {id} = {}
                        THEN Del(g.cells, cell)
                        ELSE Put(g.cells, cell, g.cells[cell] \ {id})
                   ELSE g.cells
         IN [cells |-> c1, entity_positions |-> Del(g.entity_positions, id)]

grid_clear(g) == [cells |-> EmptyMap, entity_positions |-> EmptyMap]

\* ---------------------------------------------------------------- system
\* required_components is fixed by the concrete System subclass
required_components(s) ==
    CASE s % 3 = 1 -> {"A"}
      [] s % 3 = 2 -> {"A", "B"}
      [] OTHER -> {}

\* any() in place of all()
matches_entity_any(s, e) ==
    IF ~enabled[s] THEN FALSE
    ELSE \E t \in required_components(s) : t \in components[e]

matches_entity(s, e) ==
    IF ~enabled[s] THEN FALSE
    ELSE \A t \in required_components(s) : t \in components[e]

\* the matched set of system s after register_entity(e)
register_entity(m, s, e) == IF matches_entity(s, e) THEN m \cup {e} ELSE m

\* unregister_entity that forgets the removal
unregister_entity_keeps(m, id) == m

\* the matched set after unregister_entity(id)
unregister_entity(m, id) == IF id \in m THEN m \ {id} ELSE m

\* ----------------------------------------------------------------- world
\* a world value is a record [entities, sys_entities, grid]
WorldNow == [entities |-> entities, sys_entities |-> sys_entities,
             grid |-> [cells |-> cells, entity_positions |-> entity_positions]]

add_entity_immediate(w, e) ==
    [entities |-> w.entities \cup {e},
     grid |-> IF spatial_grid # "None" THEN grid_add_entity(w.grid, e, position[e])
              ELSE w.grid,
     sys_entities |-> [s \in SystemIds |->
                          IF s \in Range(systems)
                          THEN register_entity(w.sys_entities[s], s, e)
                          ELSE w.sys_entities[s]]]

remove_entity_immediate(w, id) ==
    IF id \notin w.entities THEN w
    ELSE [entities |-> w.entities \ {id},
          grid |-> IF spatial_grid # "None" THEN grid_remove_entity(w.grid, id)
                   ELSE w.grid,
          sys_entities |-> [s \in SystemIds |->
                               IF s \in Range(systems)
                               THEN unregister_entity(w.sys_entities[s], id)
                               ELSE w.sys_entities[s]]]

RECURSIVE apply_pending_adds(_, _)
apply_pending_adds(w, q) ==
    IF q = <<>> THEN w
    ELSE apply_pending_adds(add_entity_immediate(w, Head(q)), Tail(q))

RECURSIVE apply_pending_removals(_, _)
apply_pending_removals(w, ids) ==
    IF ids = {} THEN w
    ELSE LET id == CHOOSE x \in ids : TRUE
         IN apply_pending_removals(remove_entity_immediate(w, id), ids \ {id})

\* the two loops of _process_pending_entity_changes swapped
process_pending_removals_first(w) ==
    apply_pending_adds(apply_pending_removals(w, entity_ids_pending_removal),
                       entities_pending_add)

process_pending_entity_changes(w) ==
    apply_pending_removals(apply_pending_adds(w, entities_pending_add),
                           entity_ids_pending_removal)

\* list.sort(key=attrgetter('priority'), reverse=True) is a stable sort: an
\* element goes after the elements of priority >= its own that precede it
RECURSIVE sorted_insert(_, _)
sorted_insert(lst, s) ==
    IF lst = <<>> THEN <<s>>
    ELSE IF priority[Head(lst)] >= priority[s]
         THEN <<Head(lst)>> \o sorted_insert(Tail(lst), s)
         ELSE <<s>> \o lst

RECURSIVE sort_by_priority(_)
sort_by_priority(lst) ==
    IF lst = <<>> THEN <<>>
    ELSE sorted_insert(sort_by_priority(SubSeq(lst, 1, Len(lst) - 1)), lst[Len(lst)])

\* add_system: `for entity in self.entities.values(): system.register_entity(entity)'
RECURSIVE catch_up(_, _, _)
catch_up(m, s, ents) ==
    IF ents = {} THEN m
    ELSE LET e == CHOOSE x \in ents : TRUE
         IN catch_up(register_entity(m, s, e), s, ents \ {e})

\* set_spatial_grid without the loop over the live entities
back_fill_skipped(g, ents) == g

\* set_spatial_grid: `for entity in self.entities.values(): grid.add_entity(...)'
RECURSIVE back_fill(_, _)
back_fill(g, ents) ==
    IF ents = {} THEN g
    ELSE LET e == CHOOSE x \in ents : TRUE
         IN back_fill(grid_add_entity(g, e, position[e]), ents \ {e})

SetWorld(w) ==
    /\ entities' = w.entities
    /\ sys_entities' = w.sys_entities
    /\ cells' = w.grid.cells
    /\ entity_positions' = w.grid.entity_positions

\* the event types handlers subscribe to
DispatcherEvents == {"entity_created", "entity_destroyed"}

\* the EventDispatcher after construction: no key in _subscribers, which is
\* written here as an empty list under every event type, since no method
\* returns with an empty list under a key
InitDispatcher == [ev \in DispatcherEvents |-> <<>>]

EnvWidth == 2
EnvHeight == 2
MaxEnergy == 2

\* the position a simulation Entity object is constructed with
env_initial_position(e) == <<e % EnvWidth, 0>>

\* no simulation Environment constructed yet; the entity objects exist, each
\* with an energy and a movement component: position and energy are the
\* objects' own fields, entities is the table in insertion order
InitEnvironment ==
    [boundary_condition |-> "None",
     entities |-> <<>>,
     entity_positions |-> [x \in {} |-> {}],
     position |-> [e \in EntityIds |-> env_initial_position(e)],
     energy |-> [e \in EntityIds |-> MaxEnergy],
     pc |-> "idle",
     snapshot |-> <<>>,
     i |-> 0]

\* the keys of the listeners dict a runner is constructed with
EventTypes == {"step_start", "step_end", "entity_added", "entity_removed"}

\* the runner after construction, over an empty environment
InitRunner ==
    [listeners |-> [ev \in EventTypes |-> <<>>],
     current_step |-> 0,
     entities |-> <<>>,
     pc |-> "idle",
     snapshot |-> <<>>,
     i |-> 0,
     running |-> FALSE,
     in_run |-> FALSE,
     steps |-> 0,
     step_count |-> 0,
     start |-> 0,
     stop_requested |-> FALSE,
     seen |-> <<>>]

\* what a call gave back: kind is "None" for a call that returns nothing,
\* "value" for a returned number, "ValueError" for a raised error
Outcome(kind, value) == [kind |-> kind, value |-> value]

\* no ResourceManager entry, no Entity and no Environment yet, and a
\* SimulationRunner and an EventDispatcher as constructed
InitOther ==
    /\ resources = EmptyMap
    /\ entity = [class |-> "None", components |-> <<>>, dirty |-> TRUE]
    /\ runner = InitRunner
    /\ result = Outcome("None", 0)
    /\ calls = <<>>
    /\ dispatcher = InitDispatcher
    /\ environment = InitEnvironment

\* World methods are called by client code outside a tick or from inside a
\* System's process()
CallerRuns == pc \in {"idle", "process"}

Init ==
    /\ entities = {}
    /\ systems = <<>>
    /\ entities_pending_add = <<>>
    /\ entity_ids_pending_removal = {}
    /\ is_processing = FALSE
    /\ spatial_grid = "None"
    /\ sys_entities = [s \in SystemIds |-> {}]
    /\ enabled = [s \in SystemIds |-> TRUE]
    /\ priority = [s \in SystemIds |-> 0]
    /\ components = [e \in EntityIds |-> initial_components(e)]
    /\ position = [e \in EntityIds |-> initial_position(e)]
    /\ cells = EmptyMap
    /\ entity_positions = EmptyMap
    /\ boundary = "wrapped"
    /\ pc = "idle"
    /\ idx = 0
    /\ processed = <<>>
    /\ InitOther

\* add_entity without the is_processing test
AddEntity_NotDeferred(e) ==
    /\ CallerRuns
    /\ SetWorld(add_entity_immediate(WorldNow, e))
    /\ UNCHANGED <<systems, entities_pending_add, entity_ids_pending_removal,
                   is_processing, spatial_grid, enabled, priority, components,
                   position, boundary, pc, idx, processed>>
    /\ UNCHANGED otherVars

AddEntity(e) ==
    /\ CallerRuns
    /\ IF is_processing
       THEN /\ Len(entities_pending_add) < MaxPending
            /\ entities_pending_add' = Append(entities_pending_add, e)
            /\ UNCHANGED <<entities, sys_entities, cells, entity_positions>>
       ELSE /\ SetWorld(add_entity_immediate(WorldNow, e))
            /\ UNCHANGED entities_pending_add
    /\ UNCHANGED <<systems, entity_ids_pending_removal, is_processing, spatial_grid,
                   enabled, priority, components, position, boundary, pc, idx,
                   processed>>
    /\ UNCHANGED otherVars

RemoveEntity(id) ==
    /\ CallerRuns
    /\ IF is_processing
       THEN /\ entity_ids_pending_removal' = entity_ids_pending_removal \cup {id}
            /\ UNCHANGED <<entities, sys_entities, cells, entity_positions>>
       ELSE /\ SetWorld(remove_entity_immediate(WorldNow, id))
            /\ UNCHANGED entity_ids_pending_removal
    /\ UNCHANGED <<systems, entities_pending_add, is_processing, spatial_grid,
                   enabled, priority, components, position, boundary, pc, idx,
                   processed>>
    /\ UNCHANGED otherVars

\* add_system of a system object that the World does not hold yet
AddSystem(s) ==
    /\ CallerRuns
    /\ s \notin Range(systems)
    /\ systems' = sort_by_priority(Append(systems, s))
    /\ sys_entities' = [sys_entities EXCEPT ![s] = catch_up(@, s, entities)]
    /\ UNCHANGED <<entities, entities_pending_add, entity_ids_pending_removal,
                   is_processing, spatial_grid, enabled, priority, components,
                   position, cells, entity_positions, boundary, pc, idx, processed>>
    /\ UNCHANGED otherVars

SetSpatialGrid ==
    /\ CallerRuns
    /\ spatial_grid' = "grid"
    /\ LET g == back_fill([cells |-> cells, entity_positions |-> entity_positions],
                          entities)
       IN /\ cells' = g.cells
          /\ entity_positions' = g.entity_positions
    /\ UNCHANGED <<entities, systems, entities_pending_add,
                   entity_ids_pending_removal, is_processing, sys_entities, enabled,
                   priority, components, position, boundary, pc, idx, processed>>
    /\ UNCHANGED otherVars

Clear ==
    /\ CallerRuns
    /\ LET g == IF spatial_grid # "None"
                THEN grid_clear([cells |-> cells, entity_positions |-> entity_positions])
                ELSE [cells |-> cells, entity_positions |-> entity_positions]
       IN /\ cells' = g.cells
          /\ entity_positions' = g.entity_positions
    /\ entities' = {}
    /\ entities_pending_add' = <<>>
    /\ entity_ids_pending_removal' = {}
    /\ UNCHANGED <<systems, is_processing, spatial_grid, sys_entities, enabled,
                   priority, components, position, boundary, pc, idx, processed>>
    /\ UNCHANGED otherVars

\* Entity.add_component with a tag the entity does not have yet
AddComponent(e, t) ==
    /\ CallerRuns
    /\ t \notin components[e]
    /\ components' = [components EXCEPT ![e] = @ \cup {t}]
    /\ UNCHANGED <<entities, systems, entities_pending_add,
                   entity_ids_pending_removal, is_processing, spatial_grid,
                   sys_entities, enabled, priority, position, cells,
                   entity_positions, boundary, pc, idx, processed>>
    /\ UNCHANGED otherVars

\* Entity.remove_component of a tag the entity has
RemoveComponent(e, t) ==
    /\ CallerRuns
    /\ t \in components[e]
    /\ components' = [components EXCEPT ![e] = @ \ {t}]
    /\ UNCHANGED <<entities, systems, entities_pending_add,
                   entity_ids_pending_removal, is_processing, spatial_grid,
                   sys_entities, enabled, priority, position, cells,
                   entity_positions, boundary, pc, idx, processed>>
    /\ UNCHANGED otherVars

Enable(s) ==
    /\ CallerRuns
    /\ ~enabled[s]
    /\ enabled' = [enabled EXCEPT ![s] = TRUE]
    /\ UNCHANGED <<entities, systems, entities_pending_add,
                   entity_ids_pending_removal, is_processing, spatial_grid,
                   sys_entities, priority, components, position, cells,
                   entity_positions, boundary, pc, idx, processed>>
    /\ UNCHANGED otherVars

\* disable() that also empties the matched set
Disable_Purging(s) ==
    /\ CallerRuns
    /\ enabled[s]
    /\ enabled' = [enabled EXCEPT ![s] = FALSE]
    /\ sys_entities' = [sys_entities EXCEPT ![s] = {}]
    /\ UNCHANGED <<entities, systems, entities_pending_add,
                   entity_ids_pending_removal, is_processing, spatial_grid,
                   priority, components, position, cells,
                   entity_positions, boundary, pc, idx, processed>>
    /\ UNCHANGED otherVars

Disable(s) ==
    /\ CallerRuns
    /\ enabled[s]
    /\ enabled' = [enabled EXCEPT ![s] = FALSE]
    /\ UNCHANGED <<entities, systems, entities_pending_add,
                   entity_ids_pending_removal, is_processing, spatial_grid,
                   sys_entities, priority, components, position, cells,
                   entity_positions, boundary, pc, idx, processed>>
    /\ UNCHANGED otherVars

SetPriority(s, p) ==
    /\ CallerRuns
    /\ priority[s] # p
    /\ priority' = [priority EXCEPT ![s] = p]
    /\ UNCHANGED <<entities, systems, entities_pending_add,
                   entity_ids_pending_removal, is_processing, spatial_grid,
                   sys_entities, enabled, components, position, cells,
                   entity_positions, boundary, pc, idx, processed>>
    /\ UNCHANGED otherVars

\* World.update, entry: the flag is raised and the loop over self.systems starts
UpdateBegin ==
    /\ pc = "idle"
    /\ is_processing' = TRUE
    /\ pc' = "loop"
    /\ idx' = 1
    /\ processed' = <<>>
    /\ UNCHANGED <<entities, systems, entities_pending_add,
                   entity_ids_pending_removal, spatial_grid, sys_entities, enabled,
                   priority, components, position, cells, entity_positions,
                   boundary>>
    /\ UNCHANGED otherVars

\* the loop reaches an enabled system and calls its process()
ProcessSystem ==
    /\ pc = "loop"
    /\ idx <= Len(systems)
    /\ enabled[systems[idx]]
    /\ pc' = "process"
    /\ processed' = Append(processed, systems[idx])
    /\ UNCHANGED <<entities, systems, entities_pending_add,
                   entity_ids_pending_removal, is_processing, spatial_grid,
                   sys_entities, enabled, priority, components, position, cells,
                   entity_positions, boundary, idx>>
    /\ UNCHANGED otherVars

\* the loop reaches a disabled system and skips it
SkipSystem ==
    /\ pc = "loop"
    /\ idx <= Len(systems)
    /\ ~enabled[systems[idx]]
    /\ idx' = idx + 1
    /\ UNCHANGED <<entities, systems, entities_pending_add,
                   entity_ids_pending_removal, is_processing, spatial_grid,
                   sys_entities, enabled, priority, components, position, cells,
                   entity_positions, boundary, pc, processed>>
    /\ UNCHANGED otherVars

\* process() returns and the list iterator advances
ProcessReturn ==
    /\ pc = "process"
    /\ pc' = "loop"
    /\ idx' = idx + 1
    /\ UNCHANGED <<entities, systems, entities_pending_add,
                   entity_ids_pending_removal, is_processing, spatial_grid,
                   sys_entities, enabled, priority, components, position, cells,
                   entity_positions, boundary, processed>>
    /\ UNCHANGED otherVars

\* process() raises: the exception leaves update() before the flag is lowered
ProcessRaise ==
    /\ pc = "process"
    /\ pc' = "idle"
    /\ idx' = 0
    /\ processed' = <<>>
    /\ UNCHANGED <<entities, systems, entities_pending_add,
                   entity_ids_pending_removal, is_processing, spatial_grid,
                   sys_entities, enabled, priority, components, position, cells,
                   entity_positions, boundary>>
    /\ UNCHANGED otherVars

\* the loop is exhausted: the flag is lowered and the pending changes applied
UpdateEnd ==
    /\ pc = "loop"
    /\ idx > Len(systems)
    /\ is_processing' = FALSE
    /\ SetWorld(process_pending_entity_changes(WorldNow))
    /\ entities_pending_add' = <<>>
    /\ entity_ids_pending_removal' = {}
    /\ pc' = "idle"
    /\ idx' = 0
    /\ processed' = <<>>
    /\ UNCHANGED <<systems, spatial_grid, enabled, priority, components, position,
                   boundary>>
    /\ UNCHANGED otherVars

\* World.update as a sequence of steps, returning normally
Tick ==
    \/ UpdateBegin
    \/ ProcessSystem
    \/ SkipSystem
    \/ ProcessReturn
    \/ UpdateEnd

\* World.update, including a process() that raises
Update ==
    \/ Tick
    \/ ProcessRaise

\* the tick: entity lifecycle, the grid mirror and the deferred changes, called
\* between ticks and from inside process(); the last system may be disabled
\* before it is added
Next ==
    \/ \E e \in EntityIds : AddEntity(e)
    \/ \E id \in EntityIds : RemoveEntity(id)
    \/ \E s \in SystemIds : AddSystem(s)
    \/ SetSpatialGrid
    \/ Clear
    \/ \E s \in {NumSystems} : s \notin Range(systems) /\ Disable(s)
    \/ Tick

Spec == Init /\ [][Next]_vars

\* matching: entities gain and lose components, systems are added, enabled
\* and disabled, outside a tick
NextMatch ==
    \/ \E e \in EntityIds : AddEntity(e)
    \/ \E id \in EntityIds : RemoveEntity(id)
    \/ \E s \in SystemIds : AddSystem(s)
    \/ \E e \in EntityIds, t \in Tags : AddComponent(e, t)
    \/ \E e \in EntityIds, t \in Tags : RemoveComponent(e, t)
    \/ \E s \in SystemIds : Enable(s)
    \/ \E s \in SystemIds : Disable(s)

SpecMatch == Init /\ [][NextMatch]_vars

\* ordering: systems are added, re-prioritised, enabled and disabled between
\* ticks, and ticks run
NextOrder ==
    \/ \E s \in SystemIds : pc = "idle" /\ AddSystem(s)
    \/ \E s \in SystemIds, p \in Priorities : pc = "idle" /\ SetPriority(s, p)
    \/ \E s \in SystemIds : pc = "idle" /\ Enable(s)
    \/ \E s \in SystemIds : pc = "idle" /\ Disable(s)
    \/ Update

SpecOrder == Init /\ [][NextOrder]_vars

\* ------------------------------------------------------------ properties
PendingAddIds == Range(entities_pending_add)

\* update() returns normally: the step that lowers the flag and reconciles
UpdateEndStep == pc = "loop" /\ pc' = "idle"

\* the last system has been processed and reconciliation is the next step
AboutToReconcile == pc = "loop" /\ idx > Len(systems)

Count(seq, x) == Cardinality({i \in 1..Len(seq) : seq[i] = x})

HasAll(s, comps) == required_components(s) \subseteq comps

\* C1 as stated: an entity whose add is requested while is_processing is true
\* does not enter the entity table for as long as the flag stays true, and every
\* entity queued in pending_adds is in the table once update() has reconciled.
C1_AddedPresentAfterTick ==
    [][/\ (is_processing /\ is_processing') => entities' \subseteq entities
       /\ UpdateEndStep => \A e \in PendingAddIds : e \in entities']_vars

\* C1 amended: no absent entity enters the entity table while is_processing
\* stays true, and after reconciliation every entity still queued in
\* pending_adds is in the table unless the removal of its id is queued too.
C1_DeferredAdd ==
    [][/\ (is_processing /\ is_processing') => entities' \subseteq entities
       /\ UpdateEndStep =>
              \A e \in PendingAddIds \ entity_ids_pending_removal : e \in entities']_vars

C1_Witness ==
    /\ AboutToReconcile
    /\ \E e \in PendingAddIds : e \notin entities /\ e \notin entity_ids_pending_removal

\* C2: an entity whose removal is requested while is_processing is true stays in
\* the entity table and in every matched set it belongs to for as long as the
\* flag stays true, and is out of the table once update() has reconciled.
C2_DeferredRemoval ==
    [][/\ (is_processing /\ is_processing') =>
              \A id \in (entity_ids_pending_removal \cup entity_ids_pending_removal')
                            \cap entities :
                  /\ id \in entities'
                  /\ \A s \in Range(systems) :
                         id \in sys_entities[s] => id \in sys_entities'[s]
       /\ UpdateEndStep => \A id \in entity_ids_pending_removal : id \notin entities']_vars

\* C3: while is_processing is true no step changes the key set of the entity
\* table or the matched set of any system.
C3_NoDirectMutation ==
    [][(is_processing /\ is_processing') =>
           /\ entities' = entities
           /\ sys_entities' = sys_entities]_vars

\* C4: when update() returns both pending buffers are empty, the entity table is
\* the old table plus the queued adds minus the queued removals, and so an
\* entity queued in both buffers is absent.
C4_Reconciliation ==
    [][UpdateEndStep =>
           /\ entities_pending_add' = <<>>
           /\ entity_ids_pending_removal' = {}
           /\ entities' = (entities \cup PendingAddIds) \ entity_ids_pending_removal
           /\ \A e \in PendingAddIds \cap entity_ids_pending_removal :
                  e \notin entities']_vars

C4_Witness ==
    /\ AboutToReconcile
    /\ PendingAddIds \cap entity_ids_pending_removal # {}
    /\ PendingAddIds \ entity_ids_pending_removal # {}

\* C5: the matched set of every system of the World is exactly the set of live
\* entities that have all its required components when the system is enabled,
\* and is empty when it is disabled.
C5_MatchedExact ==
    \A s \in Range(systems) :
        sys_entities[s] = IF enabled[s]
                          THEN {e \in entities : HasAll(s, components[e])}
                          ELSE {}

\* C6: when the component set of a live entity changes, the entity is afterwards
\* in the matched set of an enabled system exactly when it has all the system's
\* required components, and no other id enters or leaves any matched set.
C6_Rematch ==
    [][\A e \in entities :
           components'[e] # components[e] =>
               \A s \in Range(systems) :
                   /\ enabled[s] => (e \in sys_entities'[s] <=> HasAll(s, components'[e]))
                   /\ sys_entities'[s] \ {e} = sys_entities[s] \ {e}]_vars

\* C7: within one update no system is processed after a system of strictly
\* lower priority, and when update() returns every enabled system of the
\* World has been processed exactly once and no disabled one has.
C7_PriorityOrder ==
    [][/\ (pc = "loop" /\ pc' = "process") =>
              \A i \in 1..Len(processed) :
                  priority[processed[i]] >= priority[systems[idx]]
       /\ UpdateEndStep =>
              \A s \in Range(systems) :
                  Count(processed, s) = (IF enabled[s] THEN 1 ELSE 0)]_vars

\* C8: right after add_system(s) with s enabled, the matched set of s is exactly
\* the set of entities in the table that have all of s's required components.
C8_CatchUp ==
    [][\A s \in SystemIds :
           (s \notin Range(systems) /\ s \in Range(systems') /\ enabled[s]) =>
               sys_entities'[s] = {e \in entities' : HasAll(s, components'[e])}]_vars

C8_Witness ==
    \E s \in Range(systems) :
        /\ enabled[s]
        /\ sys_entities[s] # {}
        /\ \E e \in entities : e \notin sys_entities[s]

InGrid(id, pos) == id \in DOMAIN pos

\* C9: a removal applied to an id of the entity table (by remove_entity outside
\* a tick, or at reconciliation) leaves the id out of the table, out of the
\* matched set of every system of the World and out of the grid; remove_entity
\* outside a tick on an id that is not in the table changes nothing.
C9_RemovalPurges ==
    [][/\ \A id \in EntityIds :
              (~is_processing /\ RemoveEntity(id)) =>
                  IF id \in entities
                  THEN /\ id \notin entities'
                       /\ \A s \in Range(systems) : id \notin sys_entities'[s]
                       /\ ~InGrid(id, entity_positions')
                  ELSE UNCHANGED <<entities, sys_entities, cells, entity_positions>>
       /\ UpdateEndStep =>
              \A id \in entity_ids_pending_removal :
                  /\ id \notin entities'
                  /\ id \in entities \cup PendingAddIds =>
                         /\ \A s \in Range(systems) : id \notin sys_entities'[s]
                         /\ ~InGrid(id, entity_positions')]_vars

C9_Witness ==
    /\ AboutToReconcile
    /\ \E id \in entity_ids_pending_removal \cap entities :
           /\ \E s \in Range(systems) : id \in sys_entities[s]
           /\ InGrid(id, entity_positions)

\* C10: with the grid attached, in every state where is_processing is false the
\* ids the grid holds are exactly the keys of the entity table, each at the
\* normalized position of its entity; and the step that attaches the grid
\* leaves every entity of the table in the grid at its normalized position.
C10_GridMirrorsWorld ==
    /\ []((spatial_grid # "None" /\ ~is_processing) =>
             /\ DOMAIN entity_positions = entities
             /\ \A e \in entities :
                    entity_positions[e] = normalize_position(boundary, position[e]))
    /\ [][(spatial_grid = "None" /\ spatial_grid' # "None") =>
             /\ DOMAIN entity_positions' = entities'
             /\ \A e \in entities' :
                    entity_positions'[e] = normalize_position(boundary, position[e])]_vars

C10_Witness ==
    /\ spatial_grid # "None"
    /\ ~is_processing
    /\ pc = "idle"
    /\ Cardinality(entities) >= 2

\* ---------------------------------------------------------------------------
\* SpatialGrid and boundary handlers on their own (no World attached)
\* ---------------------------------------------------------------------------

MaxRadius == 3
MaxCount == 2
NormRange == 6

worldVars == <<entities, systems, entities_pending_add, entity_ids_pending_removal,
               is_processing, spatial_grid, sys_entities, enabled, priority,
               components, position, pc, idx, processed>>

\* positions the callers pass: two in the first bucket, one past the far
\* corner of the grid, one with negative coordinates
Positions == {<<0, 0>>, <<1, 0>>, <<GridWidth, GridHeight>>, <<-1, -1>>}

NonePosition == <<>>

Radii == 0..MaxRadius

Counts == 1..MaxCount

\* str values are sequences of characters
WRAPPED == <<"w", "r", "a", "p", "p", "e", "d">>

BOUNDED == <<"b", "o", "u", "n", "d", "e", "d">>

INFINITE == <<"i", "n", "f", "i", "n", "i", "t", "e">>

lower_char(c) ==
    CASE c = "W" -> "w" [] c = "R" -> "r" [] c = "A" -> "a" [] c = "P" -> "p"
      [] c = "E" -> "e" [] c = "D" -> "d" [] c = "B" -> "b" [] c = "O" -> "o"
      [] c = "U" -> "u" [] c = "N" -> "n" [] c = "I" -> "i" [] c = "F" -> "f"
      [] c = "T" -> "t" [] c = "L" -> "l" [] c = "V" -> "v"
      [] OTHER -> c

lower(s) == [i \in DOMAIN s |-> lower_char(s[i])]

\* the values create_boundary_handler is called with: plain strings, members
\* of the BoundaryCondition enumeration (a str subclass), other objects
BoundaryArgs ==
    {[type |-> "str", value |-> v] :
         v \in {WRAPPED, BOUNDED, INFINITE,
                <<"W", "R", "A", "P", "P", "E", "D">>,
                <<"B", "o", "u", "n", "d", "e", "d">>,
                <<"I", "N", "F", "I", "N", "I", "T", "E">>,
                <<"i", "n", "v", "a", "l", "i", "d">>,
                <<"w", "r", "a", "p">>,
                <<>>}}
    \cup {[type |-> "BoundaryCondition", value |-> v] :
              v \in {WRAPPED, BOUNDED, INFINITE}}
    \cup {[type |-> "object", value |-> <<>>]}

handler_of(v) ==
    CASE v = WRAPPED -> "wrapped"
      [] v = BOUNDED -> "bounded"
      [] v = INFINITE -> "infinite"
      [] OTHER -> "ValueError"

\* create_boundary_handler with the string compared as given
create_boundary_handler_as_given(arg) ==
    IF arg.type \in {"str", "BoundaryCondition"}
    THEN handler_of(arg.value)
    ELSE "ValueError"

create_boundary_handler(arg) ==
    IF arg.type \in {"str", "BoundaryCondition"}
    THEN handler_of(lower(arg.value))
    ELSE "ValueError"

Handlers == {"wrapped", "bounded", "infinite"}

GridNow == [cells |-> cells, entity_positions |-> entity_positions]

\* remove_entity with an explicit position argument
grid_remove_entity_at(g, id, p) ==
    IF id \notin DOMAIN g.entity_positions THEN g
    ELSE LET cell == position_to_cell(p)
             c1 == IF cell \in DOMAIN g.cells /\ id \in g.cells[cell]
                   THEN IF g.cells[cell] \ {id} = {}
                        THEN Del(g.cells, cell)
                        ELSE Put(g.cells, cell, g.cells[cell] \ {id})
                   ELSE g.cells
         IN [cells |-> c1, entity_positions |-> Del(g.entity_positions, id)]

grid_update_entity_position(g, id, q) ==
    IF id \notin DOMAIN g.entity_positions THEN grid_add_entity(g, id, q)
    ELSE LET old_position == g.entity_positions[id]
             normalized_new_position == normalize_position(boundary, q)
             old_cell == position_to_cell(old_position)
             c1 == IF old_cell \in DOMAIN g.cells /\ id \in g.cells[old_cell]
                   THEN IF g.cells[old_cell] \ {id} = {}
                        THEN Del(g.cells, old_cell)
                        ELSE Put(g.cells, old_cell, g.cells[old_cell] \ {id})
                   ELSE g.cells
             new_cell == position_to_cell(normalized_new_position)
             bucket == IF new_cell \in DOMAIN c1 THEN c1[new_cell] ELSE {}
         IN IF old_position = normalized_new_position THEN g
            ELSE [cells |-> Put(c1, new_cell, bucket \cup {id}),
                  entity_positions |->
                      Put(g.entity_positions, id, normalized_new_position)]

\* a query returns [raised, value]: raised is TRUE when the lookup
\* _entity_positions[entity_id] of a bucket member raises KeyError
Returned(v) == [raised |-> FALSE, value |-> v]

KeyError == [raised |-> TRUE, value |-> {}]

get_entity_position(g, id) ==
    IF id \in DOMAIN g.entity_positions THEN g.entity_positions[id]
    ELSE NonePosition

get_entities_at_position(g, p) ==
    LET normalized_position == normalize_position(boundary, p)
        cell == position_to_cell(normalized_position)
        bucket == IF cell \in DOMAIN g.cells THEN g.cells[cell] ELSE {}
    IN IF \E id \in bucket : id \notin DOMAIN g.entity_positions
       THEN KeyError
       ELSE Returned({id \in bucket :
                          g.entity_positions[id] = normalized_position})

\* the square of _calculate_distance; distances are compared through it
distance_squared(p, q) ==
    (q[1] - p[1]) * (q[1] - p[1]) + (q[2] - p[2]) * (q[2] - p[2])

\* math.ceil(radius / cell_size) for radius >= 0
ceil_div(a, b) == (a + b - 1) \div b

get_entities_in_radius(g, p, radius) ==
    LET normalized_position == normalize_position(boundary, p)
        center_cell == position_to_cell(normalized_position)
        cell_radius == ceil_div(radius, CellSize) + 1
        scanned == {cell \in DOMAIN g.cells :
                        /\ cell[1] - center_cell[1] \in -cell_radius..cell_radius
                        /\ cell[2] - center_cell[2] \in -cell_radius..cell_radius}
        members == UNION {g.cells[cell] : cell \in scanned}
    IN IF \E id \in members : id \notin DOMAIN g.entity_positions
       THEN KeyError
       ELSE Returned({id \in members :
                          distance_squared(normalized_position,
                                           g.entity_positions[id])
                              <= radius * radius})

\* the loop of get_nearest_entities that doubles the search radius
RECURSIVE expand_search(_, _, _, _)
expand_search(g, np, count, radius) ==
    LET found == get_entities_in_radius(g, np, radius)
    IN IF found.raised THEN found
       ELSE IF Cardinality(found.value) < count
               /\ radius < Max(GridWidth, GridHeight)
            THEN expand_search(g, np, count, radius * 2)
            ELSE found

Orderings(S) ==
    {s \in [1..Cardinality(S) -> S] :
         \A i, j \in 1..Cardinality(S) : i # j => s[i] # s[j]}

\* the lists get_nearest_entities can return: the ids found are walked in
\* the iteration order of a set, sorted by distance (stable) and cut to count
get_nearest_entities(g, p, count) ==
    LET normalized_position == normalize_position(boundary, p)
        found == expand_search(g, normalized_position, count, CellSize)
        dist(id) == distance_squared(normalized_position, g.entity_positions[id])
        n == Cardinality(found.value)
    IN IF found.raised THEN KeyError
       ELSE Returned(
                {[i \in 1..Min(count, n) |-> <<s[i], dist(s[i])>>] :
                     s \in {o \in Orderings(found.value) :
                                \A i \in 1..(n - 1) : dist(o[i]) <= dist(o[i + 1])}})

grid_len(g) == Cardinality(DOMAIN g.entity_positions)

SetGrid(g) ==
    /\ cells' = g.cells
    /\ entity_positions' = g.entity_positions

InitGrid ==
    /\ entities = {}
    /\ systems = <<>>
    /\ entities_pending_add = <<>>
    /\ entity_ids_pending_removal = {}
    /\ is_processing = FALSE
    /\ spatial_grid = "None"
    /\ sys_entities = [s \in SystemIds |-> {}]
    /\ enabled = [s \in SystemIds |-> TRUE]
    /\ priority = [s \in SystemIds |-> 0]
    /\ components = [e \in EntityIds |-> initial_components(e)]
    /\ position = [e \in EntityIds |-> initial_position(e)]
    /\ cells = EmptyMap
    /\ entity_positions = EmptyMap
    /\ boundary = "None"
    /\ pc = "idle"
    /\ idx = 0
    /\ processed = <<>>
    /\ InitOther

\* create_boundary_handler; with a handler the SpatialGrid is constructed empty
CreateBoundaryHandler(arg) ==
    /\ boundary \notin Handlers
    /\ boundary' = create_boundary_handler(arg)
    /\ UNCHANGED <<cells, entity_positions>>
    /\ UNCHANGED worldVars
    /\ UNCHANGED otherVars

GridAddEntity(id, p) ==
    /\ boundary \in Handlers
    /\ SetGrid(grid_add_entity(GridNow, id, p))
    /\ UNCHANGED boundary
    /\ UNCHANGED worldVars
    /\ UNCHANGED otherVars

\* remove_entity(entity_id) and remove_entity(entity_id, position)
GridRemoveEntity(id, p) ==
    /\ boundary \in Handlers
    /\ IF p = NonePosition
       THEN SetGrid(grid_remove_entity(GridNow, id))
       ELSE SetGrid(grid_remove_entity_at(GridNow, id, p))
    /\ UNCHANGED boundary
    /\ UNCHANGED worldVars
    /\ UNCHANGED otherVars

GridUpdateEntityPosition(id, q) ==
    /\ boundary \in Handlers
    /\ SetGrid(grid_update_entity_position(GridNow, id, q))
    /\ UNCHANGED boundary
    /\ UNCHANGED worldVars
    /\ UNCHANGED otherVars

GridClear ==
    /\ boundary \in Handlers
    /\ SetGrid(grid_clear(GridNow))
    /\ UNCHANGED boundary
    /\ UNCHANGED worldVars
    /\ UNCHANGED otherVars

NextGrid ==
    \/ \E arg \in BoundaryArgs : CreateBoundaryHandler(arg)
    \/ \E id \in EntityIds, p \in Positions : GridAddEntity(id, p)
    \/ \E id \in EntityIds, p \in Positions \cup {NonePosition} :
           GridRemoveEntity(id, p)
    \/ \E id \in EntityIds, q \in Positions : GridUpdateEntityPosition(id, q)
    \/ GridClear

SpecGrid == InitGrid /\ [][NextGrid]_vars

BucketsOf(id) == {cell \in DOMAIN cells : id \in cells[cell]}

GridBuilt == boundary \in Handlers

\* C11: in every state of a SpatialGrid reached by add, remove, update_position
\* and clear, each id of entity_positions is a member of exactly one bucket,
\* the bucket position_to_cell of its stored position.
C11_OneBucket ==
    GridBuilt =>
        \A id \in DOMAIN entity_positions :
            BucketsOf(id) = {position_to_cell(entity_positions[id])}

get_entities_in_rectangle(g, top_left, bottom_right) ==
    LET a == normalize_position(boundary, top_left)
        b == normalize_position(boundary, bottom_right)
        min_x == Min(a[1], b[1])
        max_x == Max(a[1], b[1])
        min_y == Min(a[2], b[2])
        max_y == Max(a[2], b[2])
        scanned == {cell \in DOMAIN g.cells :
                        /\ cell[1] \in (min_x \div CellSize)..(max_x \div CellSize)
                        /\ cell[2] \in (min_y \div CellSize)..(max_y \div CellSize)}
        members == UNION {g.cells[cell] : cell \in scanned}
    IN IF \E id \in members : id \notin DOMAIN g.entity_positions
       THEN KeyError
       ELSE Returned({id \in members :
                          /\ min_x <= g.entity_positions[id][1]
                          /\ g.entity_positions[id][1] <= max_x
                          /\ min_y <= g.entity_positions[id][2]
                          /\ g.entity_positions[id][2] <= max_y})

\* C12: after any sequence of grid operations every id held in a bucket has an
\* entry in entity_positions, so that entities_at, entities_in_radius,
\* entities_in_rectangle and nearest never fail; and remove on a known id, with
\* or without a position argument, leaves the id in no bucket and out of
\* entity_positions.
C12_NoStaleBucket ==
    /\ [](GridBuilt =>
             /\ \A cell \in DOMAIN cells : cells[cell] \subseteq DOMAIN entity_positions
             /\ \A p \in Positions :
                    /\ ~get_entities_at_position(GridNow, p).raised
                    /\ \A r \in Radii : ~get_entities_in_radius(GridNow, p, r).raised
                    /\ \A q \in Positions :
                           ~get_entities_in_rectangle(GridNow, p, q).raised
                    /\ \A k \in Counts : ~get_nearest_entities(GridNow, p, k).raised)
    /\ [][\A id \in EntityIds, p \in Positions \cup {NonePosition} :
              (id \in DOMAIN entity_positions /\ GridRemoveEntity(id, p)) =>
                  /\ id \notin DOMAIN entity_positions'
                  /\ \A cell \in DOMAIN cells' : id \notin cells'[cell]]_vars

\* C13: round trip. After add(e, p), for p in or out of range,
\* entities_at(normalize(p)) contains e and get_entity_position(e) is
\* normalize(p); after a subsequent remove(e), entities_at of that position
\* does not contain e and get_entity_position(e) is None.
C13_RoundTrip ==
    [][/\ \A e \in EntityIds, p \in Positions :
              GridAddEntity(e, p) =>
                  LET g == [cells |-> cells', entity_positions |-> entity_positions']
                      np == normalize_position(boundary, p)
                      at == get_entities_at_position(g, np)
                  IN /\ ~at.raised
                     /\ e \in at.value
                     /\ get_entity_position(g, e) = np
       /\ \A e \in EntityIds :
              (e \in DOMAIN entity_positions /\ GridRemoveEntity(e, NonePosition)) =>
                  LET g == [cells |-> cells', entity_positions |-> entity_positions']
                      at == get_entities_at_position(g, entity_positions[e])
                  IN /\ ~at.raised
                     /\ e \notin at.value
                     /\ get_entity_position(g, e) = NonePosition]_vars

\* C14: idempotent re-add. add(id, p) called on the state that add(id, p) left
\* (id stored at normalize(p) and in the bucket of that position) leaves the
\* grid state identical: the id is in its bucket once and len(grid) counts it
\* once.
C14_IdempotentReAdd ==
    [][\A id \in EntityIds, p \in Positions :
           LET np == normalize_position(boundary, p)
               cell == position_to_cell(np)
           IN (/\ id \in DOMAIN entity_positions
               /\ entity_positions[id] = np
               /\ cell \in DOMAIN cells
               /\ id \in cells[cell]
               /\ GridAddEntity(id, p)) =>
                  /\ cells' = cells
                  /\ entity_positions' = entity_positions
                  /\ id \in cells'[cell]
                  /\ grid_len([cells |-> cells', entity_positions |-> entity_positions'])
                         = grid_len(GridNow)]_vars

C14_Witness ==
    /\ GridBuilt
    /\ \E id \in DOMAIN entity_positions, p \in Positions :
           /\ p # entity_positions[id]
           /\ normalize_position(boundary, p) = entity_positions[id]
           /\ BucketsOf(id) = {position_to_cell(entity_positions[id])}
           /\ Cardinality(cells[position_to_cell(entity_positions[id])]) >= 2

\* C15: update_position(id, q). For an unknown id the resulting grid state is
\* that of add(id, q). For a known id, afterwards get_entity_position(id) is
\* normalize(q), entities_at(normalize(q)) contains id, entities_at(old
\* position) does not contain id when the old position differs from
\* normalize(q), and the grid state is unchanged when normalize(q) is the
\* stored position.
C15_UpdatePosition ==
    [][\A id \in EntityIds, q \in Positions :
           GridUpdateEntityPosition(id, q) =>
               LET g == [cells |-> cells', entity_positions |-> entity_positions']
                   nq == normalize_position(boundary, q)
               IN IF id \notin DOMAIN entity_positions
                  THEN g = [cells |-> Put(cells, position_to_cell(nq),
                                          (IF position_to_cell(nq) \in DOMAIN cells
                                           THEN cells[position_to_cell(nq)] ELSE {})
                                              \cup {id}),
                            entity_positions |-> Put(entity_positions, id, nq)]
                  ELSE /\ get_entity_position(g, id) = nq
                       /\ ~get_entities_at_position(g, nq).raised
                       /\ id \in get_entities_at_position(g, nq).value
                       /\ entity_positions[id] # nq =>
                              /\ ~get_entities_at_position(g, entity_positions[id]).raised
                              /\ id \notin
                                     get_entities_at_position(g, entity_positions[id]).value
                       /\ entity_positions[id] = nq => g = GridNow]_vars

\* C16: for every grid content, centre c and radius r >= 0,
\* entities_in_radius(c, r) returns exactly the ids whose stored position is
\* at Euclidean distance <= r from normalize(c): distance exactly r is
\* included, anything beyond is excluded, and no qualifying id is missed by
\* the bucket scan.
C16_RadiusExact ==
    GridBuilt =>
        \A c \in Positions, r \in Radii :
            LET res == get_entities_in_radius(GridNow, c, r)
                nc == normalize_position(boundary, c)
            IN /\ ~res.raised
               /\ res.value =
                      {id \in DOMAIN entity_positions :
                           distance_squared(nc, entity_positions[id]) <= r * r}

Ids(l) == {l[i][1] : i \in 1..Len(l)}

\* C17: nearest(pos, k) returns at most k (id, distance) pairs in ascending
\* order of distance, and whenever the grid holds at least k entities the ids
\* returned are k entities of globally smallest distance to normalize(pos): no
\* entity outside the result is strictly closer than one inside it.
C17_NearestK ==
    GridBuilt =>
        \A c \in Positions, k \in Counts :
            LET res == get_nearest_entities(GridNow, c, k)
                nc == normalize_position(boundary, c)
                d(id) == distance_squared(nc, entity_positions[id])
            IN /\ ~res.raised
               /\ \A l \in res.value :
                      /\ Len(l) <= k
                      /\ \A i \in 1..(Len(l) - 1) : l[i][2] <= l[i + 1][2]
                      /\ grid_len(GridNow) >= k =>
                             /\ Cardinality(Ids(l)) = k
                             /\ \A inside \in Ids(l) :
                                    \A outside \in DOMAIN entity_positions \ Ids(l) :
                                        d(inside) <= d(outside)

\* C18: when the grid holds fewer than k entities, nearest(pos, k) returns all
\* of them, for every query position and boundary handler.
C18_NearestAll ==
    GridBuilt =>
        \A c \in Positions, k \in Counts :
            grid_len(GridNow) < k =>
                LET res == get_nearest_entities(GridNow, c, k)
                IN /\ ~res.raised
                   /\ \A l \in res.value : Ids(l) = DOMAIN entity_positions

WidePositions == {<<x, y>> : x \in -NormRange..NormRange, y \in -NormRange..NormRange}

\* the remainder r of x by n with 0 <= r < n and x = k * n + r
EuclideanRemainder(x, n) ==
    CHOOSE r \in 0..(n - 1) :
        \E k \in (0 - NormRange - 1)..(NormRange + 1) : x = k * n + r

Clamped(x, n) == IF x < 0 THEN 0 ELSE IF x > n - 1 THEN n - 1 ELSE x

\* C19: for every integer position (x, y), negative coordinates included,
\* normalize returns under Wrapped the Euclidean remainders (x mod width,
\* y mod height), each in [0, dimension-1]; under Bounded each axis clamped to
\* [0, dimension-1]; under Infinite the position unchanged. The positions a
\* grid stores are such values.
C19_Normalize ==
    GridBuilt =>
        /\ \A p \in WidePositions :
               LET np == normalize_position(boundary, p)
               IN CASE boundary = "wrapped" ->
                           /\ np = <<EuclideanRemainder(p[1], GridWidth),
                                     EuclideanRemainder(p[2], GridHeight)>>
                           /\ np[1] \in 0..(GridWidth - 1)
                           /\ np[2] \in 0..(GridHeight - 1)
                    [] boundary = "bounded" ->
                           np = <<Clamped(p[1], GridWidth), Clamped(p[2], GridHeight)>>
                    [] boundary = "infinite" -> np = p
        /\ boundary # "infinite" =>
               \A id \in DOMAIN entity_positions :
                   /\ entity_positions[id][1] \in 0..(GridWidth - 1)
                   /\ entity_positions[id][2] \in 0..(GridHeight - 1)

C19_Witness ==
    /\ boundary = "wrapped"
    /\ \E id \in DOMAIN entity_positions :
           entity_positions[id] = <<GridWidth - 1, GridHeight - 1>>

ValidValues == {WRAPPED, BOUNDED, INFINITE}

\* C20 as stated: constructing a boundary handler from a string or tag fails
\* with the invalid-boundary-condition error for every value that is not one
\* of wrapped, bounded, infinite, and succeeds with the matching handler for
\* exactly those three values.
C20_ExactValuesOnly ==
    [][\A arg \in BoundaryArgs :
           CreateBoundaryHandler(arg) =>
               IF arg.value \in ValidValues
               THEN boundary' = handler_of(arg.value)
               ELSE boundary' = "ValueError"]_vars

\* C20 amended: the construction fails with the invalid-boundary-condition
\* error for every value whose lower-case form is not one of wrapped, bounded,
\* infinite (and for every value that is not a string), and succeeds with the
\* handler matching the lower-case form otherwise, so that WRAPPED or Bounded
\* are accepted too.
C20_CaseInsensitive ==
    [][\A arg \in BoundaryArgs :
           CreateBoundaryHandler(arg) =>
               IF arg.type # "object" /\ lower(arg.value) \in ValidValues
               THEN /\ boundary' \in Handlers
                    /\ boundary' = handler_of(lower(arg.value))
               ELSE boundary' = "ValueError"]_vars

C20_Witness ==
    /\ boundary = "ValueError"
    /\ cells = EmptyMap
    /\ entity_positions = EmptyMap

\* ---------------------------------------------------------------------------
\* ResourceManager
\* ---------------------------------------------------------------------------

MaxAmount == 1
MaxStored == 2
MaxDebt == 1

ResourceTypes == {"food", "water"}

ResourcePositions == {<<0, 0>>, <<1, 0>>}

\* the amounts the callers pass: negative, zero and positive
Amounts == (0 - MaxAmount)..MaxAmount

ecsVars == <<worldVars, cells, entity_positions, boundary>>

\* _resources[resource_type] of the defaultdict, without inserting the key
positions_of(r, t) == IF t \in DOMAIN r THEN r[t] ELSE EmptyMap

get_resource_amount(r, t, p) ==
    IF t \notin DOMAIN r THEN 0
    ELSE IF p \in DOMAIN r[t] THEN r[t][p] ELSE 0

\* self._resources[resource_type][position] += amount on the nested defaultdict
add_resource(r, t, p, amount) ==
    LET inner == positions_of(r, t)
        current == IF p \in DOMAIN inner THEN inner[p] ELSE 0
    IN Put(r, t, Put(inner, p, current + amount))

remove_resource(r, t, p) ==
    IF t \in DOMAIN r /\ p \in DOMAIN r[t]
    THEN IF DOMAIN r[t] = {p} THEN Del(r, t) ELSE Put(r, t, Del(r[t], p))
    ELSE r

\* consume_resource that deletes the entry only below zero
consume_resource_keeps_depleted(r, t, p, amount) ==
    IF t \notin DOMAIN r THEN [resources |-> r, consumed |-> 0]
    ELSE IF p \notin DOMAIN r[t] THEN [resources |-> r, consumed |-> 0]
    ELSE LET available == r[t][p]
             consumed == Min(available, amount)
             left == available - consumed
         IN [resources |-> IF left < 0 THEN remove_resource(r, t, p)
                           ELSE Put(r, t, Put(r[t], p, left)),
             consumed |-> consumed]

\* consume_resource gives back the new _resources and the amount it returns
consume_resource(r, t, p, amount) ==
    IF t \notin DOMAIN r THEN [resources |-> r, consumed |-> 0]
    ELSE IF p \notin DOMAIN r[t] THEN [resources |-> r, consumed |-> 0]
    ELSE LET available == r[t][p]
             consumed == Min(available, amount)
             left == available - consumed
         IN [resources |-> IF left <= 0 THEN remove_resource(r, t, p)
                           ELSE Put(r, t, Put(r[t], p, left)),
             consumed |-> consumed]

update_resource(r, t, p, amount) ==
    IF amount <= 0 THEN remove_resource(r, t, p)
    ELSE Put(r, t, Put(positions_of(r, t), p, amount))

transfer_resource(r, t, from, to, amount) ==
    LET c == consume_resource(r, t, from, amount)
    IN [resources |-> IF c.consumed > 0
                      THEN add_resource(c.resources, t, to, c.consumed)
                      ELSE c.resources,
        consumed |-> c.consumed]

get_all_resource_types(r) == DOMAIN r

RECURSIVE sum_values(_, _)
sum_values(f, keys) ==
    IF keys = {} THEN 0
    ELSE LET k == CHOOSE x \in keys : TRUE
         IN f[k] + sum_values(f, keys \ {k})

get_total_resource_amount(r, t) ==
    IF t \notin DOMAIN r THEN 0 ELSE sum_values(r[t], DOMAIN r[t])

clear_resource_type(r, t) == IF t \in DOMAIN r THEN Del(r, t) ELSE r

\* the amounts stay within the range the model stores
Storable(r) ==
    \A t \in DOMAIN r : \A p \in DOMAIN r[t] :
        r[t][p] \in (0 - MaxDebt)..MaxStored

ResourceAdd(t, p, amount) ==
    /\ result' = Outcome("None", 0)
    /\ resources' = add_resource(resources, t, p, amount)
    /\ Storable(resources')
    /\ UNCHANGED <<entity, runner, calls>>
    /\ UNCHANGED <<ecsVars, simVars, simVars>>

ResourceRemove(t, p) ==
    /\ resources' = remove_resource(resources, t, p)
    /\ result' = Outcome("None", 0)
    /\ UNCHANGED <<entity, runner, calls>>
    /\ UNCHANGED <<ecsVars, simVars, simVars>>

ResourceConsume(t, p, amount) ==
    /\ LET c == consume_resource(resources, t, p, amount)
       IN /\ result' = Outcome("value", c.consumed)
          /\ resources' = c.resources
          /\ Storable(c.resources)
    /\ UNCHANGED <<entity, runner, calls>>
    /\ UNCHANGED <<ecsVars, simVars, simVars>>

ResourceUpdate(t, p, amount) ==
    /\ resources' = update_resource(resources, t, p, amount)
    /\ result' = Outcome("None", 0)
    /\ UNCHANGED <<entity, runner, calls>>
    /\ UNCHANGED <<ecsVars, simVars, simVars>>

ResourceTransfer(t, from, to, amount) ==
    /\ LET c == transfer_resource(resources, t, from, to, amount)
       IN /\ result' = Outcome("value", c.consumed)
          /\ resources' = c.resources
          /\ Storable(c.resources)
    /\ UNCHANGED <<entity, runner, calls>>
    /\ UNCHANGED <<ecsVars, simVars, simVars>>

ResourceClear ==
    /\ resources' = EmptyMap
    /\ result' = Outcome("None", 0)
    /\ UNCHANGED <<entity, runner, calls>>
    /\ UNCHANGED <<ecsVars, simVars, simVars>>

ResourceClearType(t) ==
    /\ resources' = clear_resource_type(resources, t)
    /\ result' = Outcome("None", 0)
    /\ UNCHANGED <<entity, runner, calls>>
    /\ UNCHANGED <<ecsVars, simVars, simVars>>

NextResources ==
    \/ \E t \in ResourceTypes, p \in ResourcePositions, a \in Amounts :
           ResourceAdd(t, p, a)
    \/ \E t \in ResourceTypes, p \in ResourcePositions : ResourceRemove(t, p)
    \/ \E t \in ResourceTypes, p \in ResourcePositions, a \in Amounts :
           ResourceConsume(t, p, a)
    \/ \E t \in ResourceTypes, p \in ResourcePositions, a \in Amounts :
           ResourceUpdate(t, p, a)
    \/ \E t \in ResourceTypes, from \in ResourcePositions,
          to \in ResourcePositions, a \in Amounts :
           ResourceTransfer(t, from, to, a)
    \/ ResourceClear
    \/ \E t \in ResourceTypes : ResourceClearType(t)

SpecResources == Init /\ [][NextResources]_vars

\* C21: in every ResourceManager state reached by add, remove, consume,
\* update, transfer, clear and clear_type with arbitrary amounts (zero and
\* negative included), no stored entry has an amount <= 0 and no resource type
\* maps to an empty position map.
C21_PositiveEntries ==
    \A t \in DOMAIN resources :
        /\ DOMAIN resources[t] # {}
        /\ \A p \in DOMAIN resources[t] : resources[t][p] > 0

\* C22: consume(type, pos, amount) never over-draws. It returns
\* min(available, amount), and 0 when the type or the position is absent; the
\* stored amount afterwards is max(0, available - amount); when that is 0 the
\* entry is deleted, so that get returns 0 and the type is no longer in
\* get_all_resource_types() if that was its last position.
C22_Consume ==
    [][\A t \in ResourceTypes, p \in ResourcePositions, a \in Amounts :
           (result'.kind = "value" /\ ResourceConsume(t, p, a)) =>
               LET present == t \in DOMAIN resources /\ p \in DOMAIN resources[t]
                   available == get_resource_amount(resources, t, p)
                   left == IF available - a > 0 THEN available - a ELSE 0
               IN IF ~present
                  THEN result'.value = 0 /\ resources' = resources
                  ELSE /\ result'.value = (IF available <= a THEN available ELSE a)
                       /\ get_resource_amount(resources', t, p) = left
                       /\ left = 0 =>
                              /\ p \notin DOMAIN positions_of(resources', t)
                              /\ DOMAIN resources[t] = {p} =>
                                     t \notin get_all_resource_types(resources')
                       /\ left > 0 => p \in DOMAIN positions_of(resources', t)]_vars

C22_Witness ==
    /\ result = Outcome("value", MaxAmount)
    /\ get_all_resource_types(resources) = {}

\* C23: transfer(type, from, to, amount) has the effect and the result of
\* consume(type, from, amount) followed by add(type, to, consumed): it returns
\* the amount moved, and total(type) is the same before and after the call,
\* for every amount and every pair of positions, from = to included.
C23_TransferConserves ==
    [][\A t \in ResourceTypes, from \in ResourcePositions,
          to \in ResourcePositions, a \in Amounts :
           (result'.kind = "value" /\ ResourceTransfer(t, from, to, a)) =>
               LET c == consume_resource(resources, t, from, a)
               IN /\ resources' = add_resource(c.resources, t, to, c.consumed)
                  /\ result'.value = c.consumed
                  /\ get_total_resource_amount(resources', t)
                         = get_total_resource_amount(resources, t)]_vars

\* ---------------------------------------------------------------------------
\* an Entity object on its own (virtuallife.ecs.entity.Entity and
\* virtuallife.simulation.entity.Entity)
\* ---------------------------------------------------------------------------

NumComponents == 4

ComponentInstances == 1..NumComponents

EntityClasses == {"ecs", "simulation"}

\* get_component_type: the class of a component instance
get_component_type(c) == IF c % 2 = 1 THEN "A" ELSE "B"

\* the component instances whose update raises
update_raises(c) == c > 2

\* the keys of the component dict, which keeps insertion order; an item of
\* entity.components is <<key, component instance>>
component_keys(items) == {items[i][1] : i \in 1..Len(items)}

dict_delete(items, key) == SelectSeq(items, LAMBDA it : it[1] # key)

\* add_component that stores the component whatever the dict holds
entity_add_component_overwrites(ent, key, c) ==
    [entity |-> [ent EXCEPT !.components = Append(dict_delete(@, key), <<key, c>>),
                            !.dirty = TRUE],
     result |-> Outcome("None", 0)]

\* add_component of either class: the new entity and what the call gave back
entity_add_component(ent, key, c) ==
    IF key \in component_keys(ent.components)
    THEN [entity |-> ent, result |-> Outcome("ValueError", 0)]
    ELSE [entity |-> [ent EXCEPT !.components = Append(@, <<key, c>>),
                                 !.dirty = TRUE],
          result |-> Outcome("None", 0)]

\* remove_component; only the ecs class has the dirty flag
entity_remove_component(ent, key) ==
    IF key \in component_keys(ent.components)
    THEN [ent EXCEPT !.components = dict_delete(@, key), !.dirty = TRUE]
    ELSE ent

\* Entity.update walks the components in dict order. The simulation class
\* wraps each component.update in try/except; the ecs class does not, so the
\* first failure leaves the loop and the call
RECURSIVE entity_update(_, _, _)
entity_update(class, items, done) ==
    IF items = <<>> THEN [calls |-> done, result |-> Outcome("None", 0)]
    ELSE LET c == Head(items)[2]
             called == Append(done, <<"update", c>>)
         IN IF update_raises(c) /\ class = "ecs"
            THEN [calls |-> called, result |-> Outcome("Exception", c)]
            ELSE entity_update(class, Tail(items), called)

\* Entity(): no component, dirty
EntityCreate(class) ==
    /\ entity.class = "None"
    /\ entity' = [class |-> class, components |-> <<>>, dirty |-> TRUE]
    /\ result' = Outcome("None", 0)
    /\ calls' = <<>>
    /\ UNCHANGED <<resources, runner>>
    /\ UNCHANGED <<ecsVars, simVars, simVars>>

\* ecs: add_component(component); simulation: add_component(name, component)
EntityAddComponent(key, c) ==
    /\ entity.class # "None"
    /\ entity.class = "ecs" => key = get_component_type(c)
    /\ entity' = entity_add_component(entity, key, c).entity
    /\ result' = entity_add_component(entity, key, c).result
    /\ calls' = <<>>
    /\ UNCHANGED <<resources, runner>>
    /\ UNCHANGED <<ecsVars, simVars, simVars>>

EntityRemoveComponent(key) ==
    /\ entity.class # "None"
    /\ entity' = entity_remove_component(entity, key)
    /\ result' = Outcome("None", 0)
    /\ calls' = <<>>
    /\ UNCHANGED <<resources, runner>>
    /\ UNCHANGED <<ecsVars, simVars, simVars>>

EntityMarkClean ==
    /\ entity.class = "ecs"
    /\ entity' = [entity EXCEPT !.dirty = FALSE]
    /\ result' = Outcome("None", 0)
    /\ calls' = <<>>
    /\ UNCHANGED <<resources, runner>>
    /\ UNCHANGED <<ecsVars, simVars, simVars>>

EntityUpdate ==
    /\ entity.class # "None"
    /\ calls' = entity_update(entity.class, entity.components, <<>>).calls
    /\ result' = entity_update(entity.class, entity.components, <<>>).result
    /\ UNCHANGED <<entity, resources, runner>>
    /\ UNCHANGED <<ecsVars, simVars, simVars>>

NextEntity ==
    \/ \E class \in EntityClasses : EntityCreate(class)
    \/ \E key \in Tags, c \in ComponentInstances : EntityAddComponent(key, c)
    \/ \E key \in Tags : EntityRemoveComponent(key)
    \/ EntityMarkClean
    \/ EntityUpdate

SpecEntity == Init /\ [][NextEntity]_vars

\* C24: an entity holds at most one component per tag in every reachable
\* state; add_component with a tag already present fails with the
\* duplicate-component error and leaves the component map, the component it
\* holds and the dirty flag unchanged; remove_component of an absent tag
\* changes nothing, the dirty flag included.
C24_OneComponentPerTag ==
    /\ [](Cardinality(component_keys(entity.components)) = Len(entity.components))
    /\ [][/\ \A key \in Tags, c \in ComponentInstances :
                 (/\ entity.class = "ecs"
                  /\ key \in component_keys(entity.components)
                  /\ EntityAddComponent(key, c)) =>
                     /\ result'.kind = "ValueError"
                     /\ entity' = entity
          /\ \A key \in Tags :
                 (/\ entity.class = "ecs"
                  /\ key \notin component_keys(entity.components)
                  /\ EntityRemoveComponent(key)) =>
                     entity' = entity]_vars

C24_Witness ==
    /\ entity.class = "ecs"
    /\ result.kind = "ValueError"
    /\ ~entity.dirty
    /\ Len(entity.components) = 1

\* C25: component-level fault isolation. When Entity.update runs and the
\* update of one attached component raises, the failure is caught inside
\* Entity.update, the update of every other attached component still runs in
\* that call, and Entity.update returns normally.
C25_ComponentIsolation ==
    [][EntityUpdate =>
           /\ result'.kind = "None"
           /\ calls' = [i \in 1..Len(entity.components) |->
                            <<"update", entity.components[i][2]>>]]_vars

\* ---------------------------------------------------------------------------
\* System.register_entity and System.unregister_entity called directly, with
\* the hooks they invoke recorded in calls
\* ---------------------------------------------------------------------------

\* the hooks invoked by register_entity(e) on system s
register_hooks(s, e) ==
    IF matches_entity(s, e) THEN << <<"on_entity_added", s, e>> >> ELSE <<>>

\* unregister_entity that invokes its hook whether or not the id was matched
unregister_hooks_always(m, s, id) == << <<"on_entity_removed", s, id>> >>

\* the hooks invoked by unregister_entity(id) on system s with matched set m
unregister_hooks(m, s, id) ==
    IF id \in m THEN << <<"on_entity_removed", s, id>> >> ELSE <<>>

\* system.register_entity(entity)
SystemRegister(s, e) ==
    /\ CallerRuns
    /\ calls' = register_hooks(s, e)
    /\ sys_entities' = [sys_entities EXCEPT ![s] = register_entity(@, s, e)]
    /\ UNCHANGED <<entities, systems, entities_pending_add,
                   entity_ids_pending_removal, is_processing, spatial_grid,
                   enabled, priority, components, position, cells,
                   entity_positions, boundary, pc, idx, processed>>
    /\ UNCHANGED <<resources, entity, runner, result, simVars>>

\* system.unregister_entity(entity_id)
SystemUnregister(s, id) ==
    /\ CallerRuns
    /\ calls' = unregister_hooks(sys_entities[s], s, id)
    /\ sys_entities' = [sys_entities EXCEPT ![s] = unregister_entity(@, id)]
    /\ UNCHANGED <<entities, systems, entities_pending_add,
                   entity_ids_pending_removal, is_processing, spatial_grid,
                   enabled, priority, components, position, cells,
                   entity_positions, boundary, pc, idx, processed>>
    /\ UNCHANGED <<resources, entity, runner, result, simVars>>

\* entities registered with and unregistered from systems directly, while the
\* systems are enabled and disabled
NextHooks ==
    \/ \E s \in SystemIds, e \in EntityIds : SystemRegister(s, e)
    \/ \E s \in SystemIds, id \in EntityIds : SystemUnregister(s, id)
    \/ \E s \in SystemIds : Enable(s)
    \/ \E s \in SystemIds : Disable(s)

SpecHooks == Init /\ [][NextHooks]_vars

\* systems registered with a world that is ticked, while entities are
\* registered with and unregistered from the systems directly and systems are
\* enabled and disabled, between ticks and from inside process()
NextSystem ==
    \/ \E s \in SystemIds : AddSystem(s)
    \/ \E s \in SystemIds, e \in EntityIds : SystemRegister(s, e)
    \/ \E s \in SystemIds, id \in EntityIds : SystemUnregister(s, id)
    \/ \E s \in SystemIds : Enable(s)
    \/ \E s \in SystemIds : Disable(s)
    \/ Tick

SpecSystem == Init /\ [][NextSystem]_vars

\* C26: register(entity) adds the id to the matched set and invokes the
\* on_entity_added hook exactly when the entity matches, and otherwise leaves
\* the matched set alone and invokes no hook; unregister(id) removes the id and
\* invokes the on_entity_removed hook exactly when the id was matched, and
\* otherwise does nothing.
C26_RegisterHooks ==
    [][/\ \A s \in SystemIds, e \in EntityIds :
              SystemRegister(s, e) =>
                  IF matches_entity(s, e)
                  THEN /\ sys_entities'[s] = sys_entities[s] \cup {e}
                       /\ calls' = << <<"on_entity_added", s, e>> >>
                  ELSE /\ sys_entities'[s] = sys_entities[s]
                       /\ calls' = <<>>
       /\ \A s \in SystemIds, id \in EntityIds :
              SystemUnregister(s, id) =>
                  IF id \in sys_entities[s]
                  THEN /\ sys_entities'[s] = sys_entities[s] \ {id}
                       /\ calls' = << <<"on_entity_removed", s, id>> >>
                  ELSE /\ sys_entities'[s] = sys_entities[s]
                       /\ calls' = <<>>]_vars

C26_Witness ==
    \E s \in SystemIds, e \in EntityIds :
        /\ calls = << <<"on_entity_removed", s, e>> >>
        /\ e \notin sys_entities[s]
        /\ \E o \in SystemIds : o # s /\ sys_entities[o] # {}

\* C27: disable() and enable() leave the system's matched set as it was; while
\* a system is disabled, matches_entity is false for every entity, register
\* adds nothing and invokes no hook, and World.update never calls its process.
C27_DisabledInert ==
    /\ [](\A s \in SystemIds, e \in EntityIds :
              ~enabled[s] => ~matches_entity(s, e))
    /\ [][/\ \A s \in SystemIds :
                 enabled'[s] # enabled[s] => sys_entities'[s] = sys_entities[s]
          /\ \A s \in SystemIds, e \in EntityIds :
                 (~enabled[s] /\ SystemRegister(s, e)) =>
                     /\ sys_entities' = sys_entities
                     /\ calls' = <<>>
          /\ (pc = "loop" /\ pc' = "process") => enabled[systems[idx]]
          /\ processed' # processed =>
                 \/ processed' = <<>>
                 \/ /\ enabled[systems[idx]]
                    /\ processed' = Append(processed, systems[idx])]_vars

C27_Witness ==
    \E s \in SystemIds :
        /\ ~enabled[s]
        /\ sys_entities[s] # {}
        /\ pc = "loop"
        /\ idx = 2
        /\ systems[1] = s
        /\ processed = <<>>
        /\ calls = <<>>

\* ---------------------------------------------------------------------------
\* SimulationRunner: listeners, notify_listeners and step over the
\* environment's entity table. calls is the trace of the callbacks, entity
\* updates and logged errors of the operation in progress or last finished.
\* ---------------------------------------------------------------------------

NumCallbacks == 3
MaxListeners == 2
MaxSteps == 2

Callbacks == 1..NumCallbacks
\* the event names callers pass
EventArgs == EventTypes \cup {"STEP_START", "tick"}

\* what the callback given to add_listener does when it is called: it returns,
\* raises an Exception, or calls runner.stop() and returns
callback_raises(cb) == cb % 3 = 2

callback_stops(cb) == cb % 3 = 0

\* what entity.update(environment) does for the runner: even ids raise an
\* Exception
entity_update_raises(e) == e % 2 = 0

\* add_listener that creates the list of an event it does not know
add_listener_lenient(ls, event, cb) ==
    [listeners |-> [ev \in DOMAIN ls \cup {event} |->
                        IF ev = event
                        THEN (IF ev \in DOMAIN ls THEN Append(ls[ev], cb) ELSE <<cb>>)
                        ELSE ls[ev]],
     result |-> Outcome("None", 0)]

\* add_listener(event_type, callback) on the listeners dict ls
add_listener(ls, event, cb) ==
    IF event \notin DOMAIN ls
    THEN [listeners |-> ls, result |-> Outcome("ValueError", 0)]
    ELSE [listeners |-> [ls EXCEPT ![event] = Append(@, cb)],
          result |-> Outcome("None", 0)]

\* the loop of notify_listeners without its try/except
RECURSIVE notify_each_propagating(_, _, _)
notify_each_propagating(event, cbs, done) ==
    IF cbs = <<>> THEN [calls |-> done, result |-> Outcome("None", 0)]
    ELSE LET cb == Head(cbs)
             called == Append(done, <<event, cb>>)
         IN  IF callback_raises(cb)
             THEN [calls |-> called, result |-> Outcome("Exception", cb)]
             ELSE IF callback_stops(cb)
             THEN notify_each_propagating(event, Tail(cbs), Append(called, <<"stop", cb>>))
             ELSE notify_each_propagating(event, Tail(cbs), called)

\* the loop of notify_listeners: each callback is called in list order, and
\* an Exception it raises is logged and the loop goes on
RECURSIVE notify_each(_, _, _)
notify_each(event, cbs, done) ==
    IF cbs = <<>> THEN [calls |-> done, result |-> Outcome("None", 0)]
    ELSE LET cb == Head(cbs)
             called == Append(done, <<event, cb>>)
         IN  IF callback_raises(cb)
             THEN notify_each(event, Tail(cbs), Append(called, <<"listener_error", cb>>))
             ELSE IF callback_stops(cb)
             THEN notify_each(event, Tail(cbs), Append(called, <<"stop", cb>>))
             ELSE notify_each(event, Tail(cbs), called)

\* notify_listeners that lets a callback's exception out
notify_listeners_propagating(ls, event) ==
    IF event \in DOMAIN ls
    THEN notify_each_propagating(event, ls[event], <<>>)
    ELSE [calls |-> <<>>, result |-> Outcome("None", 0)]

\* notify_listeners(event_type): the calls made and the way it returns
notify_listeners(ls, event) ==
    IF event \in DOMAIN ls
    THEN notify_each(event, ls[event], <<>>)
    ELSE [calls |-> <<>>, result |-> Outcome("None", 0)]

RECURSIVE total_listeners(_, _)
total_listeners(ls, evs) ==
    IF evs = {} THEN 0
    ELSE LET ev == CHOOSE x \in evs : TRUE
         IN  Len(ls[ev]) + total_listeners(ls, evs \ {ev})

\* the sequence s without the element x
seq_without(s, x) == SelectSeq(s, LAMBDA y : y # x)

\* runner.add_listener(event_type, callback), between steps
RunnerAddListener(event, cb) ==
    /\ runner.pc = "idle"
    /\ event \in DOMAIN runner.listeners =>
           total_listeners(runner.listeners, DOMAIN runner.listeners) < MaxListeners
    /\ LET r == add_listener(runner.listeners, event, cb)
       IN  /\ result' = r.result
           /\ runner' = [runner EXCEPT !.listeners = r.listeners]
    /\ calls' = <<>>
    /\ UNCHANGED <<ecsVars, simVars, resources, entity>>

\* runner.notify_listeners(event_type), between steps
RunnerNotify(event) ==
    /\ runner.pc = "idle"
    /\ LET n == notify_listeners(runner.listeners, event)
       IN  /\ result' = n.result
           /\ calls' = n.calls
    /\ UNCHANGED <<ecsVars, simVars, resources, entity, runner>>

\* environment.add_entity(entity), between steps or from inside an update; an
\* id that is present is refused with ValueError and nothing changes
EnvAddEntity(e) ==
    /\ runner.pc \in {"idle", "updating"}
    /\ e \notin Range(runner.entities)
    /\ runner' = [runner EXCEPT !.entities = Append(@, e)]
    /\ UNCHANGED <<ecsVars, simVars, resources, entity, result, calls>>

\* environment.remove_entity(entity_id), between steps or from inside an update
EnvRemoveEntity(id) ==
    /\ runner.pc \in {"idle", "updating"}
    /\ id \in Range(runner.entities)
    /\ runner' = [runner EXCEPT !.entities = seq_without(@, id)]
    /\ UNCHANGED <<ecsVars, simVars, resources, entity, result, calls>>

\* the callbacks of event ev among the calls cs, in call order
invoked(cs, ev) == SelectSeq(cs, LAMBDA c : c[1] = ev)

\* the runner after the runner.stop() calls among the calls cs
after_stops(r, cs) ==
    IF \E k \in 1..Len(cs) : cs[k][1] = "stop"
    THEN [r EXCEPT !.running = FALSE, !.stop_requested = TRUE]
    ELSE r

\* what the step_end callbacks called among cs saw of the runner during a run:
\* the position of the callback in the list and current_step
after_seen(r, cs) ==
    IF r.in_run
    THEN [r EXCEPT !.seen = @ \o [k \in 1..Len(invoked(cs, "step_end")) |->
                                      <<k, r.current_step>>]]
    ELSE r

\* run() whose loop does not look at running
run_continues_ignoring_stop(r) == r.step_count < r.steps

\* the loop condition of run(steps)
run_continues(r) == r.running /\ r.step_count < r.steps

\* a loop of run() that does not count its steps
step_returns_uncounted(r) ==
    [r EXCEPT !.pc = IF r.in_run THEN "loop" ELSE "idle",
              !.snapshot = <<>>,
              !.i = 0]

\* step() returns, to its caller or into the loop of run(), which counts it
step_returns(r) ==
    [r EXCEPT !.pc = IF r.in_run THEN "loop" ELSE "idle",
              !.snapshot = <<>>,
              !.i = 0,
              !.step_count = IF r.in_run THEN @ + 1 ELSE @]

\* a loop over the entity table itself
step_entities_live(r) == r.entities

\* the entities the loop of step() goes through: the list copied from the
\* entity table before the loop
step_entities(r) == r.snapshot

\* step() up to the snapshot: step_start is notified, current_step goes up and
\* the entity table is copied; an exception out of notify_listeners would end
\* the step in its outer handler
RunnerStepBegin ==
    /\ \/ runner.pc = "idle"
       \/ runner.pc = "loop" /\ run_continues(runner)
    /\ runner.current_step < MaxSteps
    /\ LET n == notify_listeners(runner.listeners, "step_start")
           r == after_stops(runner, n.calls)
       IN  IF n.result.kind = "None"
           THEN /\ runner' = [r EXCEPT !.current_step = @ + 1,
                                       !.snapshot = runner.entities,
                                       !.pc = "updating",
                                       !.i = 1]
                /\ calls' = Append(n.calls, <<"current_step", runner.current_step + 1>>)
                /\ result' = Outcome("running", 0)
           ELSE /\ runner' = step_returns(r)
                /\ calls' = Append(n.calls, <<"step_error", runner.current_step>>)
                /\ result' = Outcome("None", 0)
    /\ UNCHANGED <<ecsVars, simVars, resources, entity>>

\* step() that has no handler around entity.update: the outer one ends the step
RunnerStepUpdate_Aborting ==
    /\ runner.pc = "updating"
    /\ runner.i <= Len(step_entities(runner))
    /\ LET e == step_entities(runner)[runner.i]
       IN  IF entity_update_raises(e)
           THEN /\ calls' = calls \o << <<"update", e>>,
                                        <<"step_error", runner.current_step>> >>
                /\ runner' = step_returns(runner)
                /\ result' = Outcome("None", 0)
           ELSE /\ calls' = Append(calls, <<"update", e>>)
                /\ runner' = [runner EXCEPT !.i = @ + 1]
                /\ result' = result
    /\ UNCHANGED <<ecsVars, simVars, resources, entity>>

\* step(): the loop updates the next entity of the snapshot; an Exception it
\* raises is logged and the loop goes on
RunnerStepUpdate ==
    /\ runner.pc = "updating"
    /\ runner.i <= Len(step_entities(runner))
    /\ LET e == step_entities(runner)[runner.i]
       IN  IF entity_update_raises(e)
           THEN calls' = calls \o << <<"update", e>>, <<"entity_error", e>> >>
           ELSE calls' = Append(calls, <<"update", e>>)
    /\ runner' = [runner EXCEPT !.i = @ + 1]
    /\ UNCHANGED <<ecsVars, simVars, resources, entity, result>>

\* step() after the loop: step_end is notified and step returns
RunnerStepEnd ==
    /\ runner.pc = "updating"
    /\ runner.i > Len(step_entities(runner))
    /\ LET n == notify_listeners(runner.listeners, "step_end")
       IN  /\ IF n.result.kind = "None"
              THEN calls' = calls \o n.calls
              ELSE calls' = calls \o Append(n.calls, <<"step_error", runner.current_step>>)
           /\ runner' = step_returns(after_seen(after_stops(runner, n.calls), n.calls))
    /\ result' = Outcome("None", 0)
    /\ UNCHANGED <<ecsVars, simVars, resources, entity>>

\* listeners are added under every event name and notified directly
NextListeners ==
    \/ \E event \in EventArgs, cb \in Callbacks : RunnerAddListener(event, cb)
    \/ \E event \in EventArgs : RunnerNotify(event)

SpecListeners == Init /\ [][NextListeners]_vars

\* the runner steps while step listeners are added between steps and entities
\* join and leave the environment between steps and from inside updates
NextRunner ==
    \/ \E event \in {"step_start", "step_end"}, cb \in Callbacks :
           RunnerAddListener(event, cb)
    \/ \E e \in EntityIds : EnvAddEntity(e)
    \/ \E id \in EntityIds : EnvRemoveEntity(id)
    \/ RunnerStepBegin
    \/ RunnerStepUpdate
    \/ RunnerStepEnd

SpecRunner == Init /\ [][NextRunner]_vars

\* the calls that invoke the callbacks cbs for event ev, in list order
in_order(ev, cbs) == [k \in 1..Len(cbs) |-> <<ev, cbs[k]>>]

\* the calls cs without the entries of logged errors and of stop() calls
without_errors(cs) ==
    SelectSeq(cs, LAMBDA c : c[1] \notin {"listener_error", "entity_error", "stop"})

\* C28: add_listener(event, callback) fails with the unsupported-event-type
\* ValueError for every event name other than step_start, step_end,
\* entity_added and entity_removed, leaving every listener list as it was; for
\* one of the four names it appends the callback to that event's list only.
C28_AddListener ==
    [][\A event \in EventArgs, cb \in Callbacks :
           RunnerAddListener(event, cb) =>
               IF event \in {"step_start", "step_end", "entity_added", "entity_removed"}
               THEN /\ result'.kind = "None"
                    /\ runner'.listeners[event] = Append(runner.listeners[event], cb)
                    /\ \A ev \in DOMAIN runner.listeners \ {event} :
                           runner'.listeners[ev] = runner.listeners[ev]
                    /\ DOMAIN runner'.listeners = DOMAIN runner.listeners
               ELSE /\ result'.kind = "ValueError"
                    /\ runner'.listeners = runner.listeners]_vars

C28_Witness ==
    /\ result.kind = "ValueError"
    /\ total_listeners(runner.listeners, DOMAIN runner.listeners) = MaxListeners
    /\ runner.listeners["entity_removed"] # <<>>
    /\ runner.listeners["step_end"] # <<>>

\* C29: notify_listeners(event) invokes every callback registered for the
\* event, in registration order; an Exception raised by one callback does not
\* reach the caller and does not keep a later callback from being invoked.
C29_NotifyAll ==
    [][\A event \in EventArgs :
           RunnerNotify(event) =>
               /\ result'.kind = "None"
               /\ IF event \in DOMAIN runner.listeners
                  THEN invoked(calls', event) = in_order(event, runner.listeners[event])
                  ELSE calls' = <<>>]_vars

C29_Witness ==
    \E event \in EventTypes, bad, good \in Callbacks :
        /\ callback_raises(bad)
        /\ ~callback_raises(good)
        /\ runner.listeners[event] = <<bad, good>>
        /\ calls = << <<event, bad>>, <<"listener_error", bad>>, <<event, good>> >>
        /\ result.kind = "None"

\* C30: a step fires step_start, raises current_step by exactly one, updates
\* each entity of the snapshot taken then, and fires step_end, in this order;
\* an Exception raised by one entity's update keeps neither the remaining
\* entities from being updated nor step_end from firing, and step returns
\* normally.
C30_StepOrder ==
    [][/\ (runner.pc = "idle" /\ runner'.current_step # runner.current_step) =>
              /\ runner'.current_step = runner.current_step + 1
              /\ runner'.snapshot = runner.entities
              /\ runner'.pc = "updating"
              /\ without_errors(calls')
                     = Append(in_order("step_start", runner.listeners["step_start"]),
                              <<"current_step", runner'.current_step>>)
       /\ (runner.pc = "updating" /\ runner'.pc = "idle") =>
              /\ result'.kind = "None"
              /\ runner'.current_step = runner.current_step
              /\ without_errors(calls')
                     = in_order("step_start", runner.listeners["step_start"])
                       \o << <<"current_step", runner.current_step>> >>
                       \o in_order("update", runner.snapshot)
                       \o in_order("step_end", runner.listeners["step_end"])
       /\ (runner.pc = "idle" /\ runner'.pc = "idle") =>
              runner'.current_step = runner.current_step]_vars

C30_Witness ==
    \E bad, good \in EntityIds, cb \in Callbacks :
        /\ entity_update_raises(bad)
        /\ ~entity_update_raises(good)
        /\ runner.pc = "idle"
        /\ runner.current_step = MaxSteps
        /\ good \notin Range(runner.entities)
        /\ calls = << <<"current_step", MaxSteps>>, <<"update", bad>>,
                      <<"entity_error", bad>>, <<"update", good>>,
                      <<"step_end", cb>> >>

\* ---------------------------------------------------------------------------
\* SimulationRunner.run(steps) and stop(). runner.seen is what the step_end
\* callbacks saw during the run in progress; steps, step_count, start and
\* stop_requested describe that run and are cleared when it returns.
\* ---------------------------------------------------------------------------

\* the step counts callers pass to run()
StepCounts == 0..MaxSteps

\* run(steps) up to its loop
RunnerRunBegin(n) ==
    /\ runner.pc = "idle"
    /\ runner.current_step + n <= MaxSteps
    /\ runner' = [runner EXCEPT !.running = TRUE,
                                !.in_run = TRUE,
                                !.steps = n,
                                !.step_count = 0,
                                !.start = runner.current_step,
                                !.stop_requested = FALSE,
                                !.seen = <<>>,
                                !.pc = "loop"]
    /\ calls' = <<>>
    /\ result' = Outcome("running", 0)
    /\ UNCHANGED <<ecsVars, simVars, resources, entity>>

\* run(): the loop condition fails, running is reset and run returns
RunnerRunEnd ==
    /\ runner.pc = "loop"
    /\ ~run_continues(runner)
    /\ runner' = [runner EXCEPT !.running = FALSE,
                                !.in_run = FALSE,
                                !.steps = 0,
                                !.step_count = 0,
                                !.start = 0,
                                !.stop_requested = FALSE,
                                !.seen = <<>>,
                                !.pc = "idle"]
    /\ result' = Outcome("None", 0)
    /\ UNCHANGED <<ecsVars, simVars, resources, entity, calls>>

\* runner.stop() called, once, from the update of the entity the step has just
\* updated
RunnerStop ==
    /\ runner.pc = "updating"
    /\ runner.i > 1
    /\ calls[Len(calls)][1] # "stop"
    /\ runner' = [runner EXCEPT !.running = FALSE, !.stop_requested = TRUE]
    /\ calls' = Append(calls, <<"stop", step_entities(runner)[runner.i - 1]>>)
    /\ UNCHANGED <<ecsVars, simVars, resources, entity, result>>

\* runs of a chosen number of steps over an environment that entities join,
\* with step listeners that return, raise or stop the run, and updates that
\* stop the run
NextRun ==
    \/ \E event \in {"step_start", "step_end"}, cb \in Callbacks :
           RunnerAddListener(event, cb)
    \/ \E e \in EntityIds : EnvAddEntity(e)
    \/ \E n \in StepCounts : RunnerRunBegin(n)
    \/ RunnerStepBegin
    \/ RunnerStepUpdate
    \/ RunnerStepEnd
    \/ RunnerStop
    \/ RunnerRunEnd

SpecRun == Init /\ [][NextRun]_vars

C32_StopAfterStep ==
    /\ [](runner.in_run /\ runner.stop_requested =>
              /\ ~runner.running
              /\ runner.pc = "loop" => ENABLED RunnerRunEnd)
    /\ [][(runner.in_run /\ runner.stop_requested) =>
              /\ runner.pc = "loop" =>
                     /\ runner'.pc = "idle"
                     /\ ~runner'.running
                     /\ runner'.current_step = runner.current_step
              /\ runner.pc = "updating" =>
                     /\ runner'.pc \in {"updating", "loop"}
                     /\ runner'.pc = "loop" =>
                            without_errors(calls')
                                = in_order("step_start", runner.listeners["step_start"])
                                  \o << <<"current_step", runner.current_step>> >>
                                  \o in_order("update", runner.snapshot)
                                  \o in_order("step_end", runner.listeners["step_end"])]_vars

C32_Witness ==
    /\ runner.pc = "idle"
    /\ ~runner.running
    /\ runner.current_step = 1
    /\ \E k \in 1..Len(calls) :
           /\ calls[k][1] = "stop"
           /\ \E j \in (k + 1)..Len(calls) : calls[j][1] = "update"
    /\ \E k \in 1..Len(calls) : calls[k][1] = "step_end"

\* how many times entity e was updated among the calls cs
visits(cs, e) == Len(SelectSeq(cs, LAMBDA c : c = <<"update", e>>))

\* C33: within one step, while entities are added to and removed from the
\* environment from inside updates, every entity that was in the entity table
\* when the step started its loop is updated exactly once, no entity added
\* during the step is updated in that step, no entity is updated twice, and no
\* removal makes the step fail.
C33_StableVisit ==
    /\ [](runner.pc = "updating" =>
              /\ \A e \in EntityIds : visits(calls, e) <= 1
              /\ \A k \in 1..Len(calls) : calls[k][1] # "step_error")
    /\ [][/\ (runner.pc # "updating" /\ runner'.pc = "updating") =>
                 runner'.snapshot = runner.entities
          /\ (runner.pc = "updating" /\ runner'.pc = "updating") =>
                 runner'.snapshot = runner.snapshot
          /\ (runner.pc = "updating" /\ runner'.pc # "updating") =>
                 /\ result'.kind = "None"
                 /\ \A k \in 1..Len(calls') : calls'[k][1] # "step_error"
                 /\ \A e \in EntityIds :
                        visits(calls', e) = IF e \in Range(runner.snapshot) THEN 1 ELSE 0]_vars

C33_Witness ==
    \E gone, new \in EntityIds :
        /\ runner.pc = "updating"
        /\ runner.i > Len(runner.snapshot)
        /\ gone \in Range(runner.snapshot)
        /\ gone \notin Range(runner.entities)
        /\ new \in Range(runner.entities)
        /\ new \notin Range(runner.snapshot)
        /\ visits(calls, gone) = 1
        /\ visits(calls, new) = 0

\* ---------------------------------------------------------------------------
\* EventDispatcher: subscribe, unsubscribe and publish, with handlers that
\* unsubscribe themselves while they handle an event
\* ---------------------------------------------------------------------------

NumHandlers == 3

EventHandlers == 1..NumHandlers

\* what a handler does when it is called: odd ids unsubscribe themselves from
\* the event they are handling, even ids only take the event
handler_unsubscribes(h) == h % 2 = 1

\* list.remove(x): the list without the first occurrence of x
RECURSIVE list_remove(_, _)
list_remove(lst, x) ==
    IF lst = <<>> THEN <<>>
    ELSE IF Head(lst) = x THEN Tail(lst)
    ELSE <<Head(lst)>> \o list_remove(Tail(lst), x)

\* subscribe(event_type, callback) on the list of the event type
subscribe(lst, h) == IF h \notin Range(lst) THEN Append(lst, h) ELSE lst

\* unsubscribe(event_type, callback) on the list of the event type
unsubscribe(lst, h) == IF h \in Range(lst) THEN list_remove(lst, h) ELSE lst

\* the for loop of publish over the list object lst, which the handlers called
\* change: the iterator is at position at, done are the calls made so far
RECURSIVE deliver(_, _, _, _)
deliver(ev, lst, at, done) ==
    IF at > Len(lst) THEN [list |-> lst, calls |-> done]
    ELSE LET h == lst[at]
         IN  deliver(ev,
                     IF handler_unsubscribes(h) THEN unsubscribe(lst, h) ELSE lst,
                     at + 1,
                     Append(done, <<ev, h>>))

\* dispatcher.subscribe(event_type, callback)
DispatcherSubscribe(ev, h) ==
    /\ dispatcher' = [dispatcher EXCEPT ![ev] = subscribe(@, h)]
    /\ calls' = <<>>
    /\ result' = Outcome("None", 0)
    /\ UNCHANGED <<ecsVars, resources, entity, runner, environment>>

\* dispatcher.unsubscribe(event_type, callback), outside publish
DispatcherUnsubscribe(ev, h) ==
    /\ dispatcher' = [dispatcher EXCEPT ![ev] = unsubscribe(@, h)]
    /\ calls' = <<>>
    /\ result' = Outcome("None", 0)
    /\ UNCHANGED <<ecsVars, resources, entity, runner, environment>>

\* dispatcher.publish(event_type, sender)
DispatcherPublish(ev) ==
    /\ LET d == deliver(ev, dispatcher[ev], 1, <<>>)
       IN  /\ dispatcher' = [dispatcher EXCEPT ![ev] = d.list]
           /\ calls' = d.calls
    /\ result' = Outcome("None", 0)
    /\ UNCHANGED <<ecsVars, resources, entity, runner, environment>>

NextDispatcher ==
    \/ \E ev \in DispatcherEvents, h \in EventHandlers : DispatcherSubscribe(ev, h)
    \/ \E ev \in DispatcherEvents, h \in EventHandlers : DispatcherUnsubscribe(ev, h)
    \/ \E ev \in DispatcherEvents : DispatcherPublish(ev)

SpecDispatcher == Init /\ [][NextDispatcher]_vars

\* how many times handler h was called for event ev among the calls cs
deliveries(cs, ev, h) == Len(SelectSeq(cs, LAMBDA c : c = <<ev, h>>))

\* C34: a callback is never subscribed twice to one event type; when a handler
\* unsubscribes itself while publish delivers an event, every handler
\* subscribed to that event receives this event exactly once, and the handler
\* that unsubscribed is no longer subscribed when publish returns.
C34_SelfUnsubscribe ==
    /\ [](\A ev \in DispatcherEvents :
              Cardinality(Range(dispatcher[ev])) = Len(dispatcher[ev]))
    /\ [][\A ev \in DispatcherEvents :
              DispatcherPublish(ev) =>
                  /\ \A h \in EventHandlers :
                         deliveries(calls', ev, h)
                             = IF h \in Range(dispatcher[ev]) THEN 1 ELSE 0
                  /\ \A h \in Range(dispatcher[ev]) :
                         (handler_unsubscribes(h) /\ deliveries(calls', ev, h) = 1) =>
                             h \notin Range(dispatcher'[ev])]_vars

\* C35: whenever no World.update call is executing, is_processing is false,
\* also after an update in which a System's process raised, so that add_entity
\* called outside a tick puts the entity into the table at once.
C35_FlagLowered ==
    /\ [](pc = "idle" => ~is_processing)
    /\ [][\A e \in EntityIds :
              (pc = "idle" /\ AddEntity(e)) => e \in entities']_vars

\* C36: no dangling registrations. In every state between ticks, every id in
\* the matched set of a System held by the World is a key of World.entities.
C36_NoDangling ==
    pc = "idle" =>
        \A s \in Range(systems) : sys_entities[s] \subseteq entities

\* ---------------------------------------------------------------------------
\* World.add_entity and World.remove_entity between ticks, seen by systems
\* that record their hooks: calls is the history of the hooks invoked
\* ---------------------------------------------------------------------------

MaxHookLog == 4

\* the hooks invoked while _add_entity_immediate registers e with the systems ss
RECURSIVE add_entity_hooks(_, _)
add_entity_hooks(ss, e) ==
    IF ss = <<>> THEN <<>>
    ELSE register_hooks(Head(ss), e) \o add_entity_hooks(Tail(ss), e)

\* the hooks invoked while _remove_entity_immediate unregisters id from the
\* systems ss, whose matched sets are m
RECURSIVE remove_entity_hooks(_, _, _)
remove_entity_hooks(m, ss, id) ==
    IF ss = <<>> THEN <<>>
    ELSE unregister_hooks(m[Head(ss)], Head(ss), id)
             \o remove_entity_hooks(m, Tail(ss), id)

\* world.add_entity(entity) between ticks
WorldAddEntityObserved(e) ==
    /\ pc = "idle"
    /\ ~is_processing
    /\ Len(calls) + Len(add_entity_hooks(systems, e)) <= MaxHookLog
    /\ SetWorld(add_entity_immediate(WorldNow, e))
    /\ calls' = calls \o add_entity_hooks(systems, e)
    /\ UNCHANGED <<systems, entities_pending_add, entity_ids_pending_removal,
                   is_processing, spatial_grid, enabled, priority, components,
                   position, boundary, pc, idx, processed>>
    /\ UNCHANGED <<resources, entity, runner, result, simVars>>

\* world.remove_entity(entity_id) between ticks
WorldRemoveEntityObserved(id) ==
    /\ pc = "idle"
    /\ ~is_processing
    /\ LET hooks == IF id \in entities
                    THEN remove_entity_hooks(sys_entities, systems, id)
                    ELSE <<>>
       IN  /\ Len(calls) + Len(hooks) <= MaxHookLog
           /\ calls' = calls \o hooks
    /\ SetWorld(remove_entity_immediate(WorldNow, id))
    /\ UNCHANGED <<systems, entities_pending_add, entity_ids_pending_removal,
                   is_processing, spatial_grid, enabled, priority, components,
                   position, boundary, pc, idx, processed>>
    /\ UNCHANGED <<resources, entity, runner, result, simVars>>

\* systems are added to an empty world, then entities are added and removed
\* between ticks, the same entity possibly more than once
NextBalance ==
    \/ \E s \in SystemIds : entities = {} /\ AddSystem(s)
    \/ \E e \in EntityIds : WorldAddEntityObserved(e)
    \/ \E id \in EntityIds : WorldRemoveEntityObserved(id)

SpecBalance == Init /\ [][NextBalance]_vars

\* C37: registration hooks are balanced. For every System and entity id the
\* invocations of on_entity_added and on_entity_removed alternate, starting
\* with on_entity_added, also when the same entity is passed to
\* World.add_entity more than once.
C37_HooksBalanced ==
    \A s \in SystemIds, e \in EntityIds :
        LET h == SelectSeq(calls, LAMBDA c : c[2] = s /\ c[3] = e)
        IN  \A k \in 1..Len(h) :
                h[k][1] = IF k % 2 = 1 THEN "on_entity_added" ELSE "on_entity_removed"

\* ---------------------------------------------------------------------------
\* The simulation Environment: the entity table, the position index and
\* move_entity, stepped by a SimulationRunner over entities that carry an
\* energy and a movement component
\* ---------------------------------------------------------------------------

BoundaryConditions == {"wrapped", "bounded", "infinite"}

\* the positions callers pass to move_entity
MoveTargets == {<<1, 1>>, <<EnvWidth, 0 - 1>>}

\* the steps random.randint(-1, 1) gives
Deltas == {0 - 1, 0, 1}

\* EnergyComponent.death_threshold of the entity's energy component: odd ids
\* die at energy 1, even ids at energy 0
death_threshold(e) == e % 2

\* Environment.normalize_position(position)
env_normalize_position(bc, p) ==
    CASE bc = "wrapped" -> <<p[1] % EnvWidth, p[2] % EnvHeight>>
      [] bc = "bounded" -> <<Max(0, Min(p[1], EnvWidth - 1)),
                            Max(0, Min(p[2], EnvHeight - 1))>>
      [] bc = "infinite" -> p
      [] OTHER -> <<p[1] % EnvWidth, p[2] % EnvHeight>>

\* the position move_entity computes from its target
move_target(bc, q) ==
    IF bc = "wrapped"
    THEN <<q[1] % EnvWidth, q[2] % EnvHeight>>
    ELSE <<Max(0, Min(EnvWidth - 1, q[1])), Max(0, Min(EnvHeight - 1, q[2]))>>

\* the index without id under position p, the key deleted when its set empties
index_discard(ix, p, id) ==
    IF ix[p] \ {id} = {}
    THEN [x \in DOMAIN ix \ {p} |-> ix[x]]
    ELSE [ix EXCEPT ![p] = @ \ {id}]

\* the index with id under position p
index_add(ix, p, id) ==
    [x \in DOMAIN ix \cup {p} |->
        IF x = p THEN (IF p \in DOMAIN ix THEN ix[p] ELSE {}) \cup {id} ELSE ix[x]]

\* Environment.add_entity(entity) for an entity that is not in the table
env_add_entity(env, e) ==
    [env EXCEPT !.entities = Append(@, e),
                !.entity_positions = index_add(@, env.position[e], e)]

\* Environment.remove_entity(entity_id)
env_remove_entity(env, id) ==
    IF id \in Range(env.entities)
    THEN LET p == env.position[id]
             ix == env.entity_positions
         IN  [env EXCEPT !.entities = SelectSeq(@, LAMBDA y : y # id),
                         !.entity_positions =
                             IF p \in DOMAIN ix /\ id \in ix[p]
                             THEN index_discard(ix, p, id)
                             ELSE ix]
    ELSE env

\* Environment.move_entity(entity, new_position): the environment after the
\* call and whether set.remove raised KeyError
env_move_entity(env, e, q) ==
    LET t == move_target(env.boundary_condition, q)
        old == env.position[e]
        ix == env.entity_positions
        member == e \in Range(env.entities)
    IN  IF member /\ (old \notin DOMAIN ix \/ e \notin ix[old])
        THEN [env |-> [env EXCEPT !.entity_positions =
                                      IF old \in DOMAIN ix THEN ix
                                      ELSE [x \in DOMAIN ix \cup {old} |->
                                               IF x = old THEN {} ELSE ix[x]]],
              result |-> Outcome("KeyError", 0)]
        ELSE LET ix1 == IF member THEN index_discard(ix, old, e) ELSE ix
             IN  [env |-> [env EXCEPT !.position[e] = t,
                                      !.entity_positions = index_add(ix1, t, e)],
                  result |-> Outcome("None", 0)]

\* EnergyComponent.update(entity, environment), with decay_rate 1
energy_update(env, e) ==
    LET left == Max(0, env.energy[e] - 1)
        env1 == [env EXCEPT !.energy[e] = left]
    IN  IF left <= death_threshold(e) THEN env_remove_entity(env1, e) ELSE env1

\* MovementComponent.update(entity, environment), with movement_cost 0 and the
\* random step d; a KeyError of set.remove ends the component's update
movement_update(env, e, d) ==
    IF env.energy[e] <= 0 THEN env
    ELSE LET p == env.position[e]
             ix == env.entity_positions
             new_pos == env_normalize_position(env.boundary_condition,
                                               <<p[1] + d[1], p[2] + d[2]>>)
         IN  IF p \in DOMAIN ix /\ e \notin ix[p] THEN env
             ELSE LET ix1 == IF p \in DOMAIN ix THEN index_discard(ix, p, e) ELSE ix
                  IN  [env EXCEPT !.position[e] = new_pos,
                                  !.entity_positions = index_add(ix1, new_pos, e)]

\* Entity.update(environment): the components in the order the factory adds
\* them, energy before movement
env_entity_update(env, e, d) == movement_update(energy_update(env, e), e, d)

\* Environment(width, height, boundary_condition)
EnvironmentCreate(bc) ==
    /\ environment.boundary_condition = "None"
    /\ environment' = [environment EXCEPT !.boundary_condition = bc]
    /\ UNCHANGED <<ecsVars, resources, entity, runner, result, calls, dispatcher>>

\* environment.add_entity(entity); an entity that is in the table is refused
\* with ValueError and nothing changes
EnvironmentAddEntity(e) ==
    /\ environment.boundary_condition # "None"
    /\ environment.pc = "idle"
    /\ e \notin Range(environment.entities)
    /\ environment' = env_add_entity(environment, e)
    /\ result' = Outcome("None", 0)
    /\ UNCHANGED <<ecsVars, resources, entity, runner, calls, dispatcher>>

\* environment.remove_entity(entity_id)
EnvironmentRemoveEntity(id) ==
    /\ environment.boundary_condition # "None"
    /\ environment.pc = "idle"
    /\ environment' = env_remove_entity(environment, id)
    /\ result' = Outcome("None", 0)
    /\ UNCHANGED <<ecsVars, resources, entity, runner, calls, dispatcher>>

\* environment.move_entity(entity, new_position), for an entity of the table
\* or one that is not in it
EnvironmentMoveEntity(e, q) ==
    /\ environment.boundary_condition # "None"
    /\ environment.pc = "idle"
    /\ LET m == env_move_entity(environment, e, q)
       IN  /\ environment' = m.env
           /\ result' = m.result
    /\ UNCHANGED <<ecsVars, resources, entity, runner, calls, dispatcher>>

\* runner.step() over the environment, up to the copy of the entity table
EnvironmentStepBegin ==
    /\ environment.boundary_condition # "None"
    /\ environment.pc = "idle"
    /\ environment' = [environment EXCEPT !.pc = "updating",
                                          !.snapshot = environment.entities,
                                          !.i = 1]
    /\ UNCHANGED <<ecsVars, resources, entity, runner, result, calls, dispatcher>>

\* runner.step(): the next entity of the copy is updated, its movement
\* component drawing the step d; in an infinite environment the draw is kept
\* next to the grid
EnvironmentStepEntity(d) ==
    /\ environment.pc = "updating"
    /\ environment.i <= Len(environment.snapshot)
    /\ LET e == environment.snapshot[environment.i]
           env == env_entity_update(environment, e, d)
       IN  /\ env.position[e][1] \in (0 - 1)..EnvWidth
           /\ env.position[e][2] \in (0 - 1)..EnvHeight
           /\ environment' = [env EXCEPT !.i = @ + 1]
    /\ UNCHANGED <<ecsVars, resources, entity, runner, result, calls, dispatcher>>

\* runner.step() returns
EnvironmentStepEnd ==
    /\ environment.pc = "updating"
    /\ environment.i > Len(environment.snapshot)
    /\ environment' = [environment EXCEPT !.pc = "idle", !.snapshot = <<>>, !.i = 0]
    /\ result' = Outcome("None", 0)
    /\ UNCHANGED <<ecsVars, resources, entity, runner, calls, dispatcher>>

NextEnvironment ==
    \/ \E bc \in BoundaryConditions : EnvironmentCreate(bc)
    \/ \E e \in EntityIds : EnvironmentAddEntity(e)
    \/ \E id \in EntityIds : EnvironmentRemoveEntity(id)
    \/ \E e \in EntityIds, q \in MoveTargets : EnvironmentMoveEntity(e, q)
    \/ EnvironmentStepBegin
    \/ \E d \in Deltas \X Deltas : EnvironmentStepEntity(d)
    \/ EnvironmentStepEnd

SpecEnvironment == Init /\ [][NextEnvironment]_vars

\* C38: environment index consistency. In every state between operations,
\* each id in entity_positions[p] is a key of entities whose position is p,
\* each entity of the table is listed under its own position, and no position
\* maps to an empty set.
C38_IndexConsistent ==
    environment.pc = "idle" =>
        LET ix == environment.entity_positions
        IN  /\ \A p \in DOMAIN ix :
                   /\ ix[p] # {}
                   /\ \A id \in ix[p] :
                          /\ id \in Range(environment.entities)
                          /\ environment.position[id] = p
            /\ \A e \in Range(environment.entities) :
                   /\ environment.position[e] \in DOMAIN ix
                   /\ e \in ix[environment.position[e]]

\* C39: for every boundary condition and every target q, move_entity(entity, q)
\* leaves entity.position equal to normalize_position(q).
C39_MoveNormalizes ==
    [][\A e \in EntityIds, q \in MoveTargets :
           EnvironmentMoveEntity(e, q) =>
               environment'.position[e]
                   = env_normalize_position(environment.boundary_condition, q)]_vars

====
